---- MODULE Spec2Model ----
(***************************************************************************)
(* Credit-risk analytics dashboard: the analytics engine                   *)
(* (CreditAnalyticsEngine), the mock-data generator (generateCustomers),   *)
(* the CSV upload handler (handleFileUpload) and the App's customer list.  *)
(*                                                                         *)
(* Customer objects live in a heap (a sequence of records, the reference   *)
(* of an object is its index); lists are sequences of references, so that  *)
(* an in-place write through one list is seen through every other list     *)
(* holding the same object.                                                *)
(*                                                                         *)
(* Real numbers are fixed-point: a risk score before rounding is a         *)
(* multiple of 1/Unit, which represents every weighted term exactly for    *)
(* integer inputs.  Time is counted in hours.                              *)
(***************************************************************************)
EXTENDS Integers, Sequences, FiniteSets, TLC

VARIABLES heap, customers, newCustomers, rawBefore, uploadStats, now,
          csvFile, analytics, upload, mockData, table

vars == <<heap, customers, newCustomers, rawBefore, uploadStats, now,
          csvFile, analytics, upload, mockData, table>>

(***************************************************************************)
(* Bounds of the model.                                                    *)
(***************************************************************************)
\* customers produced by generateCustomers (the code builds 500)
NumGenerated == 2

\* data rows of an uploaded CSV file
MaxRows == 2

\* hours the clock advances after the dashboard was opened
MaxTicks == 1

\* the hour the dashboard is opened (one hour before midnight of day 2000)
NowStart == 47999

(***************************************************************************)
(* Arithmetic helpers.                                                     *)
(***************************************************************************)
Max(a, b) == IF a >= b THEN a ELSE b

Min(a, b) == IF a <= b THEN a ELSE b

\* Math.round(n / d) for d > 0: nearest integer, halves towards +infinity
MathRound(n, d) == (2 * n + d) \div (2 * d)

\* 1.0 in fixed point: every weight * 1/denominator below is a whole
\* number of 1/Unit
Unit == 3150000

\* (num / den) * weight in fixed point
Weighted(num, den, weight) == num * ((weight * Unit) \div den)

\* a / b as JavaScript computes it when b may be 0 (only the class of the
\* result matters: the quotient is never read)
JsDivide(a, b) ==
  IF b # 0 THEN "finite"
  ELSE IF a = 0 THEN "NaN" ELSE "Infinity"

(***************************************************************************)
(* Risk scoring.                                                           *)
(***************************************************************************)
\* utilization counted from 0 instead of from the 30% threshold
computeWeightedRiskScoreNoThreshold(factors) ==
  LET creditScoreNormalized == Max(0, 850 - factors.creditScore)
      paymentHistoryRisk == Max(0, 100 - factors.paymentHistory)
      utilizationRisk == IF factors.utilizationRate > 0
                         THEN factors.utilizationRate ELSE 0
      incomeRisk == Max(0, 500000 - factors.income)
      accountAgeRisk == Max(0, 60 - factors.accountAge)
      fraudRisk == Min(5, factors.fraudAlerts)
      score == Weighted(creditScoreNormalized, 450, 35)
               + Weighted(paymentHistoryRisk, 100, 35)
               + Weighted(utilizationRisk, 100, 15)
               + Weighted(incomeRisk, 500000, 10)
               + Weighted(accountAgeRisk, 60, 3)
               + Weighted(fraudRisk, 5, 2)
  IN  Min(100, MathRound(score, Unit))

\* the account age counted as a risk: accountAge / 60 for (60 - accountAge)
\* / 60
computeWeightedRiskScoreOlderRiskier(factors) ==
  LET creditScoreNormalized == Max(0, 850 - factors.creditScore)
      paymentHistoryRisk == Max(0, 100 - factors.paymentHistory)
      utilizationRisk == IF factors.utilizationRate > 30
                         THEN factors.utilizationRate - 30 ELSE 0
      incomeRisk == Max(0, 500000 - factors.income)
      accountAgeRisk == Max(0, factors.accountAge)
      fraudRisk == Min(5, factors.fraudAlerts)
      score == Weighted(creditScoreNormalized, 450, 35)
               + Weighted(paymentHistoryRisk, 100, 35)
               + Weighted(utilizationRisk, 70, 15)
               + Weighted(incomeRisk, 500000, 10)
               + Weighted(accountAgeRisk, 60, 3)
               + Weighted(fraudRisk, 5, 2)
  IN  Min(100, MathRound(score, Unit))

\* computeWeightedRiskScore: the six weighted terms are added to score in
\* the order of the code, then Math.min(100, Math.round(score)).
\* Each normalized term is kept as its numerator; Weighted divides by the
\* denominator and multiplies by the weight.  fraudRisk = min(1, f / 5) is
\* min(5, f) / 5.
computeWeightedRiskScore(factors) ==
  LET creditScoreNormalized == Max(0, 850 - factors.creditScore)
      paymentHistoryRisk == Max(0, 100 - factors.paymentHistory)
      utilizationRisk == IF factors.utilizationRate > 30
                         THEN factors.utilizationRate - 30 ELSE 0
      incomeRisk == Max(0, 500000 - factors.income)
      accountAgeRisk == Max(0, 60 - factors.accountAge)
      fraudRisk == Min(5, factors.fraudAlerts)
      score == Weighted(creditScoreNormalized, 450, 35)
               + Weighted(paymentHistoryRisk, 100, 35)
               + Weighted(utilizationRisk, 70, 15)
               + Weighted(incomeRisk, 500000, 10)
               + Weighted(accountAgeRisk, 60, 3)
               + Weighted(fraudRisk, 5, 2)
  IN  Min(100, MathRound(score, Unit))

\* the RiskFactors structure calculateRiskScore builds from a customer
RiskFactorsOf(customer) ==
  [creditScore |-> customer.creditScore,
   income |-> customer.income,
   paymentHistory |-> customer.paymentHistory,
   utilizationRate |-> customer.utilizationRate,
   accountAge |-> customer.accountAge,
   fraudAlerts |-> customer.fraudAlerts,
   transactionPattern |-> JsDivide(customer.transactionCount, customer.accountAge),
   avgTransactionAmount |-> customer.avgTransactionAmount]

calculateRiskScore(customer) == computeWeightedRiskScore(RiskFactorsOf(customer))

(***************************************************************************)
(* Segment assignment and the batch pipeline.                              *)
(***************************************************************************)
\* the Silver rule tried before the Premium and Gold rules
assignCustomerSegmentSilverFirst(customer) ==
  IF customer.income > 250000 /\ customer.riskScore < 80 THEN "Silver"
  ELSE IF customer.income > 600000 /\ customer.riskScore < 40 THEN "Premium"
  ELSE IF customer.income > 400000 /\ customer.riskScore < 60 THEN "Gold"
  ELSE "Basic"

assignCustomerSegment(customer) ==
  IF customer.income > 600000 /\ customer.riskScore < 40 THEN "Premium"
  ELSE IF customer.income > 400000 /\ customer.riskScore < 60 THEN "Gold"
  ELSE IF customer.income > 250000 /\ customer.riskScore < 80 THEN "Silver"
  ELSE "Basic"

\* the category thresholds tested with <= instead of <
processCustomerInclusive(customer) ==
  LET scored == [customer EXCEPT !.riskScore = calculateRiskScore(customer)]
      categorised == [scored EXCEPT !.riskCategory =
                        IF scored.riskScore <= 30 THEN "Low"
                        ELSE IF scored.riskScore <= 70 THEN "Medium"
                        ELSE "High"]
  IN  [categorised EXCEPT !.segment = assignCustomerSegment(categorised)]

\* the segment assigned before the new risk score is stored
processCustomerSegmentFirst(customer) ==
  LET segmented == [customer EXCEPT !.segment = assignCustomerSegment(customer)]
      scored == [segmented EXCEPT !.riskScore = calculateRiskScore(segmented)]
  IN  [scored EXCEPT !.riskCategory =
         IF scored.riskScore < 30 THEN "Low"
         ELSE IF scored.riskScore < 70 THEN "Medium"
         ELSE "High"]

\* the callback of rawCustomers.map: three assignments to the customer
\* object, each reading the object as the previous one left it
processCustomer(customer) ==
  LET scored == [customer EXCEPT !.riskScore = calculateRiskScore(customer)]
      categorised == [scored EXCEPT !.riskCategory =
                        IF scored.riskScore < 30 THEN "Low"
                        ELSE IF scored.riskScore < 70 THEN "Medium"
                        ELSE "High"]
  IN  [categorised EXCEPT !.segment = assignCustomerSegment(categorised)]

\* the heap after the callback ran on rawCustomers[first], ...,
\* rawCustomers[last] in this order: on the first half of them, then on
\* the second half (a heap without objects has nothing to write)
RECURSIVE MapInPlace(_, _, _, _)
MapInPlace(h, rawCustomers, first, last) ==
  IF first > last \/ Len(h) = 0 THEN h
  ELSE IF first = last
  THEN [h EXCEPT ![rawCustomers[first]] = processCustomer(h[rawCustomers[first]])]
  ELSE LET middle == (first + last) \div 2
       IN  MapInPlace(MapInPlace(h, rawCustomers, first, middle),
                      rawCustomers, middle + 1, last)

\* the first customer is processed but left out of the returned array
processNewCustomerDataSkipFirst(h, rawCustomers) ==
  [heap |-> MapInPlace(h, rawCustomers, 1, Len(rawCustomers)),
   result |-> [i \in 1..(Len(rawCustomers) - 1) |-> rawCustomers[i + 1]]]

\* processNewCustomerData: map builds a new array, but the callback
\* returns the object it was given, so the new array holds the references
\* of the input and the writes went to the caller's objects
processNewCustomerData(h, rawCustomers) ==
  [heap |-> MapInPlace(h, rawCustomers, 1, Len(rawCustomers)),
   result |-> [i \in 1..Len(rawCustomers) |-> rawCustomers[i]]]

\* reduce((sum, c) => sum + c.riskScore, 0)
RECURSIVE SumRiskScore(_)
SumRiskScore(list) ==
  IF list = <<>> THEN 0
  ELSE list[1].riskScore + SumRiskScore(Tail(list))

\* the records a list of references points to
Deref(h, refs) == [i \in 1..Len(refs) |-> h[refs[i]]]

(***************************************************************************)
(* Segment analysis.  Lists here are sequences of customer records: the    *)
(* analysis only reads them.                                               *)
(***************************************************************************)
\* the segments array of clusterCustomers: name and criteria, in order
SegmentNames == <<"Premium", "Gold", "Silver", "Basic">>

criteria(k, c) ==
  CASE k = 1 -> c.income > 600000 /\ c.riskScore < 40
    [] k = 2 -> c.income > 400000 /\ c.riskScore < 60
    [] k = 3 -> c.income > 250000 /\ c.riskScore < 80
    [] k = 4 -> TRUE

\* the customers pushed to segment k by the forEach: those whose first
\* segment with a true criteria is k (break after the push)
Bucket(list, k) ==
  SelectSeq(list, LAMBDA c : criteria(k, c) /\ \A j \in 1..(k - 1) : ~criteria(j, c))

\* every customer pushed to every segment whose criteria holds (no break)
clusterCustomersNoBreak(list) ==
  SelectSeq([k \in 1..4 |-> [name |-> SegmentNames[k],
                             customers |-> SelectSeq(list, LAMBDA c : criteria(k, c))]],
            LAMBDA s : Len(s.customers) > 0)

\* empty segments kept
clusterCustomersNoFilter(list) ==
  [k \in 1..4 |-> [name |-> SegmentNames[k], customers |-> Bucket(list, k)]]

\* clusterCustomers: fill the four segments, keep the non-empty ones
clusterCustomers(list) ==
  SelectSeq([k \in 1..4 |-> [name |-> SegmentNames[k], customers |-> Bucket(list, k)]],
            LAMBDA s : Len(s.customers) > 0)

\* the value JavaScript gives 0 / 0
NaN == "NaN"

NumberFields ==
  {"age", "income", "creditScore", "accountBalance", "transactionCount",
   "avgTransactionAmount", "riskScore", "fraudAlerts", "paymentHistory",
   "utilizationRate", "accountAge"}

\* the sum of a list is the sum of its first half plus that of its second
RECURSIVE SumField(_, _)
SumField(list, field) ==
  IF list = <<>> THEN 0
  ELSE IF Len(list) = 1
  THEN (IF field \in NumberFields THEN list[1][field] ELSE 0)
  ELSE LET middle == Len(list) \div 2
       IN  SumField(SubSeq(list, 1, middle), field)
           + SumField(SubSeq(list, middle + 1, Len(list)), field)

\* calculateAverage: Math.round(sum / customers.length)
calculateAverage(list, field) ==
  IF Len(list) = 0 THEN NaN ELSE MathRound(SumField(list, field), Len(list))

\* a customer who joined exactly 180 days ago counts as recent
calculateGrowthRateInclusive(list, clock) ==
  LET sixMonthsAgo == clock - 6 * 30 * 24
      recentCustomers == Len(SelectSeq(list, LAMBDA c : c.joinDate * 24 >= sixMonthsAgo))
      totalCustomers == Len(list)
      oldCustomers == totalCustomers - recentCustomers
  IN  IF oldCustomers = 0 THEN 100
      ELSE MathRound(recentCustomers * 100, oldCustomers)

\* calculateGrowthRate at the given clock; a join date is midnight of its day
calculateGrowthRate(list, clock) ==
  LET sixMonthsAgo == clock - 6 * 30 * 24
      recentCustomers == Len(SelectSeq(list, LAMBDA c : c.joinDate * 24 > sixMonthsAgo))
      totalCustomers == Len(list)
      oldCustomers == totalCustomers - recentCustomers
  IN  IF oldCustomers = 0 THEN 100
      ELSE MathRound(recentCustomers * 100, oldCustomers)

\* reduce((sum, c) => sum + c.income * 0.15, 0), in hundredths
RECURSIVE Revenue(_)
Revenue(list) ==
  IF list = <<>> THEN 0
  ELSE IF Len(list) = 1 THEN list[1].income * 15
  ELSE LET middle == Len(list) \div 2
       IN  Revenue(SubSeq(list, 1, middle)) + Revenue(SubSeq(list, middle + 1, Len(list)))

\* performSegmentAnalysis at the given clock; percentage is the fraction
\* num / den
performSegmentAnalysis(list, clock) ==
  LET segments == clusterCustomers(list)
  IN  [k \in 1..Len(segments) |->
         [segment |-> segments[k].name,
          customers |-> Len(segments[k].customers),
          avgIncome |-> calculateAverage(segments[k].customers, "income"),
          avgRiskScore |-> calculateAverage(segments[k].customers, "riskScore"),
          revenue |-> Revenue(segments[k].customers),
          growthRate |-> calculateGrowthRate(segments[k].customers, clock),
          percentage |-> [num |-> Len(segments[k].customers), den |-> Len(list)]]]

(***************************************************************************)
(* The engine called on its own: a caller holds a list of one customer     *)
(* with arbitrary attributes and arbitrary old derived fields.             *)
(***************************************************************************)
\* the record parseCustomerFromCSV builds when every column is missing,
\* for the row of the given index read on the given day
DefaultCustomer(index, today) ==
  [id |-> <<"CUST", index>>, name |-> <<"Customer", index>>,
   age |-> 30, income |-> 300000, creditScore |-> 650,
   accountBalance |-> 50000, transactionCount |-> 25,
   avgTransactionAmount |-> 5000,
   riskScore |-> 0, riskCategory |-> "Medium", segment |-> "",
   city |-> "Mumbai", state |-> "Maharashtra",
   joinDate |-> today, lastTransactionDate |-> today,
   fraudAlerts |-> 0, paymentHistory |-> 85, utilizationRate |-> 45,
   accountAge |-> 24]

CreditScoreVals == {0, 400, 650, 850, 900}
PaymentHistoryVals == {0, 60, 86, 100, 120}
UtilizationVals == {0, 30, 31, 100, 150}
IncomeVals == {-500000, 0, 250000, 300000, 500000, 700000}
AccountAgeVals == {0, 24, 60}
FraudAlertVals == {-20, 0, 3, 1000}
OldRiskScoreVals == {0, 95}
OldSegmentVals == {"", "Premium"}

EngineInputs ==
  { [DefaultCustomer(1, NowStart \div 24) EXCEPT
       !.creditScore = cs, !.paymentHistory = ph, !.utilizationRate = ut,
       !.income = inc, !.accountAge = aa, !.fraudAlerts = fa,
       !.riskScore = rs, !.segment = sg] :
    cs \in CreditScoreVals, ph \in PaymentHistoryVals, ut \in UtilizationVals,
    inc \in IncomeVals, aa \in AccountAgeVals, fa \in FraudAlertVals,
    rs \in OldRiskScoreVals, sg \in OldSegmentVals }

\* useState<any>(null)
NoStats == [totalRecords |-> -1, validRecords |-> -1, highRisk |-> -1,
            sumRiskScore |-> 0]

\* no file has been chosen
NoFile == [headers |-> <<>>, lines |-> <<>>]

\* no upload is running: handleFileUpload is at no line, isProcessing is
\* false
NoUpload ==
  [pc |-> "idle", i |-> 0, calls |-> 0, isProcessing |-> FALSE,
   processedCustomers |-> <<>>]

\* the module mockData is left out: its own list of customers is not built
NoMockData == [pc |-> "unloaded", customers |-> <<>>, segmentAnalysis |-> <<>>]

\* the CustomerTable is not mounted; the fields hold the initial values of
\* its useState calls
NoTable ==
  [mounted |-> FALSE, searchTerm |-> "", riskFilter |-> "all",
   sortBy |-> "riskScore", sortOrder |-> "desc", currentPage |-> 1,
   itemsPerPage |-> 25]

\* no analysis has been asked for
NoAnalysis ==
  [clock |-> -1, customers |-> <<>>, segments |-> <<>>, fraudSuspects |-> <<>>,
   insights |-> <<>>]

InitEngine ==
  /\ \E c \in EngineInputs : heap = <<c>>
  /\ newCustomers = <<1>>
  /\ customers = <<>>
  /\ rawBefore = <<>>
  /\ uploadStats = NoStats
  /\ now = NowStart
  /\ csvFile = NoFile
  /\ analytics = NoAnalysis
  /\ upload = NoUpload
  /\ mockData = NoMockData
  /\ table = NoTable

\* CreditAnalyticsEngine.processNewCustomerData(newCustomers), called by
\* whoever holds the list; rawBefore keeps the records as they were at the
\* call
ProcessNewCustomerData ==
  /\ newCustomers # <<>>
  /\ rawBefore' = Deref(heap, newCustomers)
  /\ heap' = processNewCustomerData(heap, newCustomers).heap
  /\ UNCHANGED <<customers, newCustomers, uploadStats, now, csvFile, analytics, upload,
                 mockData, table>>

NextEngine == ProcessNewCustomerData

SpecEngine == InitEngine /\ [][NextEngine]_vars

\* the list the caller passed has been processed at least once
Processed == rawBefore # <<>>

(***************************************************************************)
(* The mock-data generator.  Math.random() is a free choice; the values    *)
(* tried for each attribute are listed below and every line of             *)
(* generateCustomers restricts them as the code does.                      *)
(***************************************************************************)
\* 'CUST-000i' and 'Customer i'
IdText == <<"CUST-0001", "CUST-0002", "CUST-0003", "CUST-0004", "CUST-0005",
            "CUST-0006", "CUST-0007", "CUST-0008", "CUST-0009">>

NameText == <<"Customer 1", "Customer 2", "Customer 3", "Customer 4",
              "Customer 5", "Customer 6", "Customer 7", "Customer 8",
              "Customer 9">>

GenAgeVals == {25, 45}
GenIncomeVals == {150000, 450000, 620000}
GenCreditScoreVals == {550, 700, 799}
GenPaymentHistoryVals == {80}
GenUtilizationVals == {30, 60}
GenFraudAlertVals == {0, 2}
GenAccountAgeVals == {40}
GenTransactionCountVals == {40}
GenAvgTransactionVals == {7000}
GenAccountBalanceVals == {70000}

\* generateRealisticIncome: floor(200000 * min(2.5, 1 + (age - 25) * 0.08)
\* * randomFactor) with 0.7 <= randomFactor < 1.3; the multiplier in
\* hundredths
generateRealisticIncome(age, income) ==
  LET experienceMultiplier == Min(250, 100 + (age - 25) * 8)
  IN  1400 * experienceMultiplier <= income /\ income < 2600 * experienceMultiplier

\* generateCreditScore: max(400, min(850, floor(baseScore + v))), -50 <= v < 50
generateCreditScore(income, age, creditScore) ==
  LET incomeImpact == IF income > 500000 THEN 100
                      ELSE IF income > 300000 THEN 50 ELSE 0
      ageImpact == IF age > 35 THEN 50 ELSE IF age > 30 THEN 25 ELSE 0
      baseScore == 600 + incomeImpact + ageImpact
  IN  \E raw \in (baseScore - 50)..(baseScore + 49) :
        creditScore = Max(400, Min(850, raw))

\* generatePaymentHistory: max(60, min(100, floor(baseHistory + v))), -10 <= v < 10
generatePaymentHistory(creditScore, paymentHistory) ==
  LET baseHistory == (((creditScore - 400) * 40) \div 450) + 60
  IN  \E raw \in (baseHistory - 10)..(baseHistory + 9) :
        paymentHistory = Max(60, Min(100, raw))

\* generateUtilizationRate: max(5, min(95, floor(baseUtilization + v))), -15 <= v < 15
generateUtilizationRate(creditScore, income, utilizationRate) ==
  LET incomeCut == IF income > 600000 THEN 20
                   ELSE IF income > 400000 THEN 10 ELSE 0
      baseUtilization == 90 - (((creditScore - 400) * 60) \div 450) - incomeCut
  IN  \E raw \in (baseUtilization - 15)..(baseUtilization + 14) :
        utilizationRate = Max(5, Min(95, raw))

\* generateFraudAlerts: 0, or floor(random * 3) + 1 with a positive probability
generateFraudAlerts(fraudAlerts) == fraudAlerts \in 0..3

\* generateJoinDate: the date (day number) accountAge * 30 days before clock
generateJoinDate(accountAge, clock) == (clock - accountAge * 30 * 24) \div 24

\* one draw of the random attributes of a customer
GenDraws ==
  [age : GenAgeVals, income : GenIncomeVals, creditScore : GenCreditScoreVals,
   accountBalance : GenAccountBalanceVals, accountAge : GenAccountAgeVals,
   transactionCount : GenTransactionCountVals,
   avgTransactionAmount : GenAvgTransactionVals,
   paymentHistory : GenPaymentHistoryVals,
   utilizationRate : GenUtilizationVals, fraudAlerts : GenFraudAlertVals]

\* the draw is one the attribute lines of generateCustomers can produce;
\* floor(x) = v for some x in [lo, hi) iff v < hi and v + 1 > lo
Generated(d) ==
  /\ d.age \in 25..64
  /\ generateRealisticIncome(d.age, d.income)
  /\ generateCreditScore(d.income, d.age, d.creditScore)
  \* floor(income * (0.1 + random * 0.4))
  /\ 10 * d.accountBalance < 5 * d.income
  /\ 10 * (d.accountBalance + 1) > d.income
  /\ d.accountAge \in 6..65
  \* floor((accountAge / 12) * (10 + random * 20))
  /\ 12 * d.transactionCount < 30 * d.accountAge
  /\ 12 * (d.transactionCount + 1) > 10 * d.accountAge
  \* floor(income * (0.01 + random * 0.05))
  /\ 100 * d.avgTransactionAmount < 6 * d.income
  /\ 100 * (d.avgTransactionAmount + 1) > d.income
  /\ generatePaymentHistory(d.creditScore, d.paymentHistory)
  /\ generateUtilizationRate(d.creditScore, d.income, d.utilizationRate)
  /\ generateFraudAlerts(d.fraudAlerts)

\* the customer built for index i (0-based) from a draw: baseCustomer,
\* then riskScore and riskCategory; segment stays ''
GeneratedCustomer(d, i, clock) ==
  LET baseCustomer ==
        [id |-> IdText[i + 1], name |-> NameText[i + 1],
         age |-> d.age, income |-> d.income, creditScore |-> d.creditScore,
         accountBalance |-> d.accountBalance,
         transactionCount |-> d.transactionCount,
         avgTransactionAmount |-> d.avgTransactionAmount,
         riskScore |-> 0, riskCategory |-> "Low", segment |-> "",
         city |-> "Mumbai", state |-> "Maharashtra",
         joinDate |-> generateJoinDate(d.accountAge, clock),
         lastTransactionDate |-> clock \div 24,
         fraudAlerts |-> d.fraudAlerts, paymentHistory |-> d.paymentHistory,
         utilizationRate |-> d.utilizationRate, accountAge |-> d.accountAge]
      scored == [baseCustomer EXCEPT !.riskScore = calculateRiskScore(baseCustomer)]
  IN  [scored EXCEPT !.riskCategory =
         IF scored.riskScore < 30 THEN "Low"
         ELSE IF scored.riskScore < 70 THEN "Medium" ELSE "High"]

\* generateCustomers: the lists of NumGenerated customers it can return
generateCustomers(clock) ==
  LET draws == { d \in GenDraws : Generated(d) }
  IN  { [i \in 1..NumGenerated |-> GeneratedCustomer(ds[i], i - 1, clock)] :
        ds \in [1..NumGenerated -> draws] }

(***************************************************************************)
(* CSV ingestion.  A file is a header line and data lines; a data line is  *)
(* BlankLine or a row giving the text of the cell under each header.  A    *)
(* numeric cell is [kind, n]: kind "number" is text parseInt reads as n,   *)
(* kind "text" is text parseInt cannot read, kind "missing" is the empty   *)
(* string.  A text cell is a string, "" when empty.                        *)
(***************************************************************************)
Num(n) == [kind |-> "number", n |-> n]

NoNum == [kind |-> "missing", n |-> 0]

\* a line that is empty after trim()
BlankLine == [blank |-> TRUE]

\* the header row of the sample file offered for download, with the two
\* date columns the parser also reads
SampleHeaders ==
  <<"id", "name", "age", "income", "credit_score", "balance", "transactions",
    "avg_transaction", "city", "state", "payment_history", "utilization",
    "account_age", "fraud_alerts", "join_date", "last_transaction">>

\* h.toLowerCase().includes(fieldName.toLowerCase()) over the header names
\* of the model
Includes(h, fieldName) ==
  \/ h = fieldName
  \/ fieldName = "credit" /\ h = "credit_score"
  \/ fieldName = "age" /\ h = "account_age"

\* getField: the cell under the first header that includes fieldName, ''
\* when there is none
getField(headers, values, fieldName, empty) ==
  LET hits == { k \in 1..Len(headers) : Includes(headers[k], fieldName) }
  IN  IF hits = {} THEN empty
      ELSE values[CHOOSE k \in hits : \A m \in hits : k <= m]

\* parseInt(cell) || fallback: NaN and 0 are both falsy
ParseIntOr(cell, fallback) ==
  IF cell.kind = "number" /\ cell.n # 0 THEN cell.n ELSE fallback

\* cell || fallback for a date cell; the date is its day number
DateOr(cell, fallback) == IF cell.kind = "number" THEN cell.n ELSE fallback

\* cell || fallback for a text cell
TextOr(cell, fallback) == IF cell = "" THEN fallback ELSE cell

\* parseCustomerFromCSV(headers, values, index), read at the given clock
parseCustomerFromCSV(headers, values, index, clock) ==
  LET num(f) == getField(headers, values, f, NoNum)
      txt(f) == getField(headers, values, f, "")
      today == clock \div 24
  IN  [id |-> TextOr(txt("id"), IdText[index]),
       name |-> TextOr(txt("name"), NameText[index]),
       age |-> ParseIntOr(num("age"), 30),
       income |-> ParseIntOr(num("income"), 300000),
       creditScore |-> ParseIntOr(num("credit"), 650),
       accountBalance |-> ParseIntOr(num("balance"), 50000),
       transactionCount |-> ParseIntOr(num("transactions"), 25),
       avgTransactionAmount |-> ParseIntOr(num("avg_transaction"), 5000),
       riskScore |-> 0, riskCategory |-> "Medium", segment |-> "",
       city |-> TextOr(txt("city"), "Mumbai"),
       state |-> TextOr(txt("state"), "Maharashtra"),
       joinDate |-> DateOr(num("join_date"), today),
       lastTransactionDate |-> DateOr(num("last_transaction"), today),
       fraudAlerts |-> ParseIntOr(num("fraud_alerts"), 0),
       paymentHistory |-> ParseIntOr(num("payment_history"), 85),
       utilizationRate |-> ParseIntOr(num("utilization"), 45),
       accountAge |-> ParseIntOr(num("account_age"), 24)]

\* the loop of handleFileUpload over lines[i], i >= 1: blank lines are
\* skipped, every other line is parsed with its line index and pushed
RECURSIVE ParseLines(_, _, _, _)
ParseLines(headers, lines, i, clock) ==
  IF i > Len(lines) THEN <<>>
  ELSE LET rest == ParseLines(headers, lines, i + 1, clock)
       IN  IF lines[i].blank THEN rest
           ELSE <<parseCustomerFromCSV(headers,
                    [k \in 1..Len(headers) |-> lines[i][headers[k]]], i, clock)>>
                \o rest

(***************************************************************************)
(* The dashboard: App holds the displayed list, DataManagement replaces    *)
(* it on every upload.                                                     *)
(***************************************************************************)
\* a data line with the given numeric cells, every other cell empty
CsvRow(income, credit, payment, utilization, accountAge, fraud, joinDate) ==
  [blank |-> FALSE, id |-> "", name |-> "", age |-> NoNum, income |-> income,
   credit_score |-> credit, balance |-> NoNum, transactions |-> NoNum,
   avg_transaction |-> NoNum, city |-> "", state |-> "",
   payment_history |-> payment, utilization |-> utilization,
   account_age |-> accountAge, fraud_alerts |-> fraud,
   join_date |-> joinDate, last_transaction |-> NoNum]

\* the data lines tried in uploads
CsvRows ==
  { CsvRow(NoNum, NoNum, NoNum, NoNum, NoNum, NoNum, NoNum),
    CsvRow(Num(700000), Num(400), Num(100), Num(10), Num(60), Num(0), Num(1000)),
    CsvRow(Num(100000), Num(450), Num(60), Num(90), Num(3), Num(3), NoNum),
    CsvRow(NoNum, NoNum, Num(86), NoNum, NoNum, NoNum, NoNum),
    CsvRow(Num(450000), NoNum, NoNum, NoNum, NoNum, NoNum, Num(1820)) }

\* sequences over S of length 0..n
RECURSIVE SeqsUpTo(_, _)
SeqsUpTo(S, n) ==
  IF n = 0 THEN {<<>>}
  ELSE LET shorter == SeqsUpTo(S, n - 1)
       IN  shorter \cup { Append(q, x) : q \in { p \in shorter : Len(p) = n - 1 }, x \in S }

\* the files tried: the sample header over up to MaxRows data lines, a
\* file with a blank line before its data line, and a file whose header
\* has no column the parser knows but account_age
CsvFiles ==
  { [headers |-> SampleHeaders, lines |-> l] : l \in SeqsUpTo(CsvRows, MaxRows) }
  \cup { [headers |-> SampleHeaders, lines |-> <<BlankLine, r>>] : r \in CsvRows }
  \cup { [headers |-> <<"account_age">>, lines |-> <<r>>] : r \in CsvRows }

\* useState(() => generateCustomers()) when the App mounts
Init ==
  /\ \E generated \in generateCustomers(NowStart) : heap = generated
  /\ customers = [i \in 1..NumGenerated |-> i]
  /\ newCustomers = <<>>
  /\ rawBefore = <<>>
  /\ uploadStats = NoStats
  /\ now = NowStart
  /\ csvFile = NoFile
  /\ analytics = NoAnalysis
  /\ upload = NoUpload
  /\ mockData = NoMockData
  /\ table = NoTable

\* handleFileUpload followed by App.handleDataUpdate: the lines are parsed
\* into fresh objects, the engine processes the list, the statistics are
\* stored and the returned list replaces the displayed one
Upload ==
  \E file \in CsvFiles :
    \E parsed \in {ParseLines(file.headers, file.lines, 1, now)} :
      \E run \in {processNewCustomerData(parsed, [i \in 1..Len(parsed) |-> i])} :
        \E processedCustomers \in {Deref(run.heap, run.result)} :
          /\ rawBefore' = parsed
          /\ heap' = run.heap
          /\ newCustomers' = [i \in 1..Len(parsed) |-> i]
          /\ uploadStats' =
               [totalRecords |-> Len(parsed),
                validRecords |-> Len(processedCustomers),
                highRisk |-> Cardinality({ i \in 1..Len(processedCustomers) :
                                            processedCustomers[i].riskCategory = "High" }),
                sumRiskScore |-> SumRiskScore(processedCustomers)]
          /\ customers' = run.result
          /\ csvFile' = file
          /\ UNCHANGED <<now, analytics, upload, mockData, table>>

\* time passes
Tick ==
  /\ now < NowStart + MaxTicks
  /\ now' = now + 1
  /\ UNCHANGED <<heap, customers, newCustomers, rawBefore, uploadStats, csvFile,
                 analytics, upload, mockData, table>>

Next == Upload \/ Tick

Spec == Init /\ [][Next]_vars

\* the customers the dashboard displays
Displayed == Deref(heap, customers)

(***************************************************************************)
(* Claims about the risk score.                                            *)
(***************************************************************************)
\* the objects of the caller's list, as they are now
Held == Deref(heap, newCustomers)

\* C1: for every customer with finite numeric fields, negative fraud alerts
\* included, calculateRiskScore returns an integer r with 0 <= r <= 100
C1_ScoreInRange ==
  Processed => \A i \in 1..Len(Held) :
                 Held[i].riskScore \in 0..100

\* the sum S of the six weighted sub-scores as the specification writes it,
\* in fixed point
ClaimedSum(c) ==
  35 * Max(0, (850 - c.creditScore) * (Unit \div 450))
  + 35 * Max(0, (100 - c.paymentHistory) * (Unit \div 100))
  + 15 * (IF c.utilizationRate > 30
          THEN (c.utilizationRate - 30) * (Unit \div 70) ELSE 0)
  + Max(0, (500000 - c.income) * ((10 * Unit) \div 500000))
  + 3 * Max(0, (60 - c.accountAge) * (Unit \div 60))
  + 2 * Min(Unit, c.fraudAlerts * (Unit \div 5))

\* round(min(100, S))
ClaimedScore(c) == MathRound(Min(100 * Unit, ClaimedSum(c)), Unit)

\* C2: the score the code stores is round(min(100, S)) for the S of the
\* specification (the code's min(100, round(S)) is the same value), and a
\* utilization of 30 or less adds nothing to S
C2_ScoreFormula ==
  Processed => \A i \in 1..Len(Held) :
                 /\ Held[i].riskScore = ClaimedScore(rawBefore[i])
                 /\ rawBefore[i].utilizationRate <= 30 =>
                      Held[i].riskScore =
                        ClaimedScore([rawBefore[i] EXCEPT !.utilizationRate = 0])

\* a processed customer whose sum exceeds 100 and one below the threshold
C2_Witness ==
  /\ Processed
  /\ \E i \in 1..Len(Held) :
       /\ ClaimedSum(rawBefore[i]) > 100 * Unit
       /\ Held[i].riskScore = 100

\* a processed customer with utilization exactly 30 and a positive score
C2_WitnessThreshold ==
  /\ Processed
  /\ \E i \in 1..Len(Held) :
       rawBefore[i].utilizationRate = 30 /\ Held[i].riskScore > 0

C3_WitnessHigh ==
  /\ Processed
  /\ \E i, j \in 1..Len(Displayed) :
       /\ Displayed[i].riskScore = 69 /\ Displayed[i].riskCategory = "Medium"
       /\ Displayed[j].riskScore = 70 /\ Displayed[j].riskCategory = "High"

\* a generated list, with its categories
C3_WitnessGenerated ==
  /\ ~Processed
  /\ \E i, j \in 1..Len(Displayed) :
       /\ Displayed[i].riskScore < 30 /\ Displayed[i].riskCategory = "Low"
       /\ Displayed[j].riskScore >= 30 /\ Displayed[j].riskCategory = "Medium"

\* rule k of the segment table of the specification
ClaimedRule(k, income, riskScore) ==
  CASE k = 1 -> income > 600000 /\ riskScore < 40
    [] k = 2 -> income > 400000 /\ riskScore < 60
    [] k = 3 -> income > 250000 /\ riskScore < 80
    [] k = 4 -> TRUE

\* C4: a processed customer has the segment of the earliest rule it
\* satisfies, which is one of the four segments
C4_FirstMatch ==
  Processed =>
    \A i \in 1..Len(Held) :
      /\ Held[i].segment \in {"Premium", "Gold", "Silver", "Basic"}
      /\ \A k \in 1..4 :
           (/\ ClaimedRule(k, Held[i].income, Held[i].riskScore)
            /\ \A j \in 1..(k - 1) : ~ClaimedRule(j, Held[i].income, Held[i].riskScore))
           => Held[i].segment = SegmentNames[k]

\* income 700000 and score 35 satisfy the Premium, Gold and Silver rules
C4_Witness ==
  /\ Processed
  /\ \E i \in 1..Len(Held) :
       /\ Held[i].income = 700000 /\ Held[i].riskScore = 35
       /\ Held[i].segment = "Premium"

\* the record with its derived fields reset to the placeholders
Blanked(c) == [c EXCEPT !.riskScore = 0, !.riskCategory = "Medium", !.segment = ""]

\* C5: the score is computed from the raw attributes, the category from
\* that score and the segment from that score: nothing the record carried
\* in riskScore, riskCategory or segment reaches the output
C5_DerivedInOrder ==
  Processed =>
    \A i \in 1..Len(Held) :
      /\ Held[i].riskScore = calculateRiskScore(Blanked(rawBefore[i]))
      /\ Held[i].riskCategory =
           (IF Held[i].riskScore < 30 THEN "Low"
            ELSE IF Held[i].riskScore < 70 THEN "Medium" ELSE "High")
      /\ Held[i].segment =
           assignCustomerSegment([Blanked(rawBefore[i]) EXCEPT
                                    !.riskScore = Held[i].riskScore])

\* the input carried a score of 95 and the segment Premium, the output
\* has another score and another segment
C5_Witness ==
  /\ Processed
  /\ \E i \in 1..Len(Held) :
       /\ rawBefore[i].riskScore = 95 /\ rawBefore[i].segment = "Premium"
       /\ Held[i].riskScore < 80 /\ Held[i].income > 250000
       /\ Held[i].segment # "Premium"

\* C6: every displayed customer has its derived fields populated
C6_DerivedPopulated ==
  \A i \in 1..Len(Displayed) :
    /\ Displayed[i].riskCategory =
         (IF Displayed[i].riskScore < 30 THEN "Low"
          ELSE IF Displayed[i].riskScore < 70 THEN "Medium" ELSE "High")
    /\ Displayed[i].segment \in {"Premium", "Gold", "Silver", "Basic"}

C8_InputUntouched ==
  Processed =>
    \A i \in 1..Len(Held) :
      /\ Held[i].riskScore = rawBefore[i].riskScore
      /\ Held[i].riskCategory = rawBefore[i].riskCategory
      /\ Held[i].segment = rawBefore[i].segment

(***************************************************************************)
(* Claims about the segment analysis.                                      *)
(***************************************************************************)
\* the members of the bucket with the given name, none when it is absent
BucketMembers(segments, name) ==
  IF \E k \in 1..Len(segments) : segments[k].name = name
  THEN segments[CHOOSE k \in 1..Len(segments) : segments[k].name = name].customers
  ELSE <<>>

\* C9: on a list processNewCustomerData produced, every bucket holds
\* customers whose segment field is the bucket's name, and a bucket has as
\* many members as there are customers with that segment
C9_BucketsFollowSegment ==
  Processed =>
    LET segments == clusterCustomers(Held)
        analysis == performSegmentAnalysis(Held, now)
    IN  /\ \A k \in 1..Len(segments) : \A m \in 1..Len(segments[k].customers) :
             segments[k].customers[m].segment = segments[k].name
        /\ \A n \in 1..4 :
             Len(BucketMembers(segments, SegmentNames[n])) =
               Cardinality({ i \in 1..Len(Held) : Held[i].segment = SegmentNames[n] })
        /\ \A k \in 1..Len(analysis) :
             analysis[k].customers =
               Cardinality({ i \in 1..Len(Held) : Held[i].segment = analysis[k].segment })

\* a processed list whose customers fall in two segments
C9_Witness ==
  /\ Processed
  /\ Len(clusterCustomers(Held)) >= 2
  /\ \E i \in 1..Len(Held) : Held[i].segment = "Premium"

\* position of a segment name in the fixed order
SegmentRank(name) == CHOOSE n \in 1..4 : SegmentNames[n] = name

\* C10: the analysis of the displayed list has no empty entry, its names
\* are distinct and in the order Premium, Gold, Silver, Basic, and a
\* segment is present exactly when a customer falls in it
C10_NoEmptyBuckets ==
  LET analysis == performSegmentAnalysis(Displayed, now)
  IN  /\ \A k \in 1..Len(analysis) :
           /\ analysis[k].customers >= 1
           /\ analysis[k].segment \in {"Premium", "Gold", "Silver", "Basic"}
      /\ \A k, m \in 1..Len(analysis) :
           k < m => SegmentRank(analysis[k].segment) < SegmentRank(analysis[m].segment)
      /\ \A n \in 1..4 :
           (\E k \in 1..Len(analysis) : analysis[k].segment = SegmentNames[n])
           <=> (\E i \in 1..Len(Displayed) :
                  assignCustomerSegment(Displayed[i]) = SegmentNames[n])

\* a displayed list in two segments, the other two dropped
C10_Witness ==
  /\ Processed
  /\ Len(Displayed) >= 2
  /\ Len(performSegmentAnalysis(Displayed, now)) = 2

\* how many times the record r occurs in the list
Occurrences(list, r) == Cardinality({ i \in 1..Len(list) : list[i] = r })

\* sum of the customers fields of the entries
RECURSIVE SumCustomers(_)
SumCustomers(entries) ==
  IF entries = <<>> THEN 0 ELSE entries[1].customers + SumCustomers(Tail(entries))

\* sum of the percentage fields of the entries, as a fraction
RECURSIVE SumPercentage(_)
SumPercentage(entries) ==
  IF entries = <<>> THEN [num |-> 0, den |-> 1]
  ELSE LET rest == SumPercentage(Tail(entries))
           p == entries[1].percentage
       IN  [num |-> p.num * rest.den + rest.num * p.den, den |-> p.den * rest.den]

\* C11: for every non-empty displayed list the buckets partition it: every
\* customer is in exactly one bucket, the customers fields sum to the
\* length of the list and the percentage fields sum to 1
C11_BucketsPartition ==
  Len(Displayed) > 0 =>
    LET segments == clusterCustomers(Displayed)
        entries == performSegmentAnalysis(Displayed, now)
        total == SumPercentage(entries)
    IN  /\ \A i \in 1..Len(Displayed) :
             /\ Cardinality({ k \in 1..Len(segments) :
                  Occurrences(segments[k].customers, Displayed[i]) > 0 }) = 1
             /\ \E k \in 1..Len(segments) :
                  Occurrences(segments[k].customers, Displayed[i]) =
                    Occurrences(Displayed, Displayed[i])
        /\ SumCustomers(entries) = Len(Displayed)
        /\ total.den # 0 /\ total.num = total.den

\* an uploaded list of several customers spread over two buckets, one of
\* them satisfying the criteria of Premium, Gold, Silver and Basic at once
C11_Witness ==
  /\ Processed
  /\ Len(Displayed) >= 2
  /\ Len(performSegmentAnalysis(Displayed, now)) >= 2
  /\ \E i \in 1..Len(Displayed) : \A k \in 1..4 : criteria(k, Displayed[i])

(***************************************************************************)
(* Fraud detection.  The anomaly score is a quotient of products of        *)
(* incomes, amounts and counts, too large for one machine integer: a       *)
(* non-negative integer is kept as its digits in base 10000, least         *)
(* significant first, and a real number is NaN, Infinity or an exact       *)
(* fraction num / den of two such integers, den > 0.                       *)
(***************************************************************************)
RECURSIVE BigOf(_)
BigOf(n) == IF n < 10000 THEN <<n>> ELSE <<n % 10000>> \o BigOf(n \div 10000)

RECURSIVE BigPlusCarry(_, _, _)
BigPlusCarry(a, b, carry) ==
  IF a = <<>> /\ b = <<>> THEN (IF carry = 0 THEN <<>> ELSE <<carry>>)
  ELSE LET x == IF a = <<>> THEN 0 ELSE a[1]
           y == IF b = <<>> THEN 0 ELSE b[1]
           sum == x + y + carry
       IN  <<sum % 10000>> \o BigPlusCarry(IF a = <<>> THEN <<>> ELSE Tail(a),
                                          IF b = <<>> THEN <<>> ELSE Tail(b),
                                          sum \div 10000)

BigPlus(a, b) == BigPlusCarry(a, b, 0)

RECURSIVE BigTimesDigit(_, _, _)
BigTimesDigit(a, digit, carry) ==
  IF a = <<>> THEN (IF carry = 0 THEN <<>> ELSE <<carry>>)
  ELSE LET product == a[1] * digit + carry
       IN  <<product % 10000>> \o BigTimesDigit(Tail(a), digit, product \div 10000)

RECURSIVE BigTimes(_, _)
BigTimes(a, b) ==
  IF b = <<>> THEN <<>>
  ELSE BigPlus(BigTimesDigit(a, b[1], 0), <<0>> \o BigTimes(a, Tail(b)))

\* the digits without leading zeros
RECURSIVE BigTrim(_)
BigTrim(a) ==
  IF a # <<>> /\ a[Len(a)] = 0 THEN BigTrim(SubSeq(a, 1, Len(a) - 1)) ELSE a

BigLess(a, b) ==
  LET x == BigTrim(a)
      y == BigTrim(b)
  IN  IF Len(x) # Len(y) THEN Len(x) < Len(y)
      ELSE \E i \in 1..Len(x) :
             x[i] < y[i] /\ \A j \in (i + 1)..Len(x) : x[j] = y[j]

BigEqual(a, b) == BigTrim(a) = BigTrim(b)

Abs(n) == IF n < 0 THEN -n ELSE n

\* the number n / d, for integers n >= 0 and d > 0
Real(n, d) == [kind |-> "finite", num |-> BigOf(n), den |-> BigOf(d)]

RealNaN == [kind |-> "NaN", num |-> <<>>, den |-> <<>>]

RealInfinity == [kind |-> "Infinity", num |-> <<>>, den |-> <<>>]

\* x * (n / d), n > 0
RealTimes(x, n, d) ==
  IF x.kind = "finite"
  THEN [kind |-> "finite", num |-> BigTimes(x.num, BigOf(n)),
        den |-> BigTimes(x.den, BigOf(d))]
  ELSE x

\* x + y for non-negative x and y: NaN wins over Infinity
RealPlus(x, y) ==
  IF x.kind = "NaN" \/ y.kind = "NaN" THEN RealNaN
  ELSE IF x.kind = "Infinity" \/ y.kind = "Infinity" THEN RealInfinity
  ELSE [kind |-> "finite",
        num |-> BigPlus(BigTimes(x.num, y.den), BigTimes(y.num, x.den)),
        den |-> BigTimes(x.den, y.den)]

\* x > n / d; every comparison with NaN is false
RealGreater(x, n, d) ==
  CASE x.kind = "NaN" -> FALSE
    [] x.kind = "Infinity" -> TRUE
    [] OTHER -> BigLess(BigTimes(BigOf(n), x.den), BigTimes(x.num, BigOf(d)))

\* x = n / d
RealEqual(x, n, d) ==
  x.kind = "finite" /\ BigEqual(BigTimes(BigOf(n), x.den), BigTimes(x.num, BigOf(d)))

\* Math.min(1, x): NaN when x is NaN
MathMinOne(x) ==
  CASE x.kind = "NaN" -> RealNaN
    [] x.kind = "Infinity" -> Real(1, 1)
    [] OTHER -> IF BigLess(x.den, x.num) THEN Real(1, 1) ELSE x

\* Math.abs((value - avg) / (avg * 0.5)): a division by zero gives NaN for
\* 0 / 0 and Infinity otherwise
zScore(value, avg) ==
  IF avg = 0 THEN (IF value = 0 THEN RealNaN ELSE RealInfinity)
  ELSE Real(2 * Abs(value - avg), Abs(avg))

\* calculateAnomalyScore of a customer of the non-empty list allCustomers
calculateAnomalyScore(customer, allCustomers) ==
  LET avgIncome == calculateAverage(allCustomers, "income")
      avgTransactionAmount == calculateAverage(allCustomers, "avgTransactionAmount")
      avgTransactionCount == calculateAverage(allCustomers, "transactionCount")
      incomeZScore == zScore(customer.income, avgIncome)
      transactionAmountZScore ==
        zScore(customer.avgTransactionAmount, avgTransactionAmount)
      transactionCountZScore == zScore(customer.transactionCount, avgTransactionCount)
      anomalyScore ==
        RealTimes(RealPlus(RealPlus(RealTimes(incomeZScore, 3, 10),
                                    RealTimes(transactionAmountZScore, 4, 10)),
                           RealTimes(transactionCountZScore, 3, 10)),
                  1, 3)
  IN  MathMinOne(anomalyScore)

\* the filter keeps a score of exactly 0.7
detectFraudPatternsInclusive(h, refs) ==
  SelectSeq(refs, LAMBDA r :
    LET anomalyScore == calculateAnomalyScore(h[r], Deref(h, refs))
    IN  RealGreater(anomalyScore, 7, 10) \/ RealEqual(anomalyScore, 7, 10))

\* detectFraudPatterns over the list refs of objects of the heap h: the
\* filter returns references to the same objects
detectFraudPatterns(h, refs) ==
  SelectSeq(refs, LAMBDA r :
    RealGreater(calculateAnomalyScore(h[r], Deref(h, refs)), 7, 10))

(***************************************************************************)
(* Business insights.                                                      *)
(***************************************************************************)
\* the rule fires at exactly 15% too
riskManagementRuleInclusive(list) ==
  LET highRiskCount == Len(SelectSeq(list, LAMBDA c : c.riskCategory = "High"))
  IN  IF Len(list) > 0 /\ highRiskCount * 100 >= Len(list) * 15
      THEN <<[type |-> "risk_management", priority |-> "critical",
              message |-> <<highRiskCount, MathRound(highRiskCount * 1000, Len(list))>>]>>
      ELSE <<>>

\* the first if of generateRecommendations: highRiskCount >
\* customers.length * 0.15; the message carries the count and the
\* percentage toFixed(1), in tenths
riskManagementRule(list) ==
  LET highRiskCount == Len(SelectSeq(list, LAMBDA c : c.riskCategory = "High"))
  IN  IF highRiskCount * 100 > Len(list) * 15
      THEN <<[type |-> "risk_management", priority |-> "critical",
              message |-> <<highRiskCount, MathRound(highRiskCount * 1000, Len(list))>>]>>
      ELSE <<>>

\* the rule fires at a growth rate of exactly 15 too
growthOpportunityRuleInclusive(segments) ==
  LET found == { k \in 1..Len(segments) : segments[k].segment = "Premium" }
  IN  IF found = {} THEN <<>>
      ELSE LET premiumSegment == segments[CHOOSE k \in found : \A m \in found : k <= m]
           IN  IF premiumSegment.growthRate >= 15
               THEN <<[type |-> "growth_opportunity", priority |-> "high",
                       message |-> <<premiumSegment.growthRate>>]>>
               ELSE <<>>

\* the second if: segments.find(s => s.segment === 'Premium') exists and
\* its growthRate > 15
growthOpportunityRule(segments) ==
  LET found == { k \in 1..Len(segments) : segments[k].segment = "Premium" }
  IN  IF found = {} THEN <<>>
      ELSE LET premiumSegment == segments[CHOOSE k \in found : \A m \in found : k <= m]
           IN  IF premiumSegment.growthRate > 15
               THEN <<[type |-> "growth_opportunity", priority |-> "high",
                       message |-> <<premiumSegment.growthRate>>]>>
               ELSE <<>>

\* the third if: lowUtilizationCustomers > customers.length * 0.3
engagementRule(list) ==
  LET lowUtilizationCustomers == Len(SelectSeq(list, LAMBDA c : c.utilizationRate < 20))
  IN  IF lowUtilizationCustomers * 10 > Len(list) * 3
      THEN <<[type |-> "engagement", priority |-> "medium",
              message |-> <<lowUtilizationCustomers>>]>>
      ELSE <<>>

\* the ifs chained with else: the first rule that fires ends the evaluation
generateRecommendationsElseIf(list, segments) ==
  IF riskManagementRule(list) # <<>> THEN riskManagementRule(list)
  ELSE IF growthOpportunityRule(segments) # <<>> THEN growthOpportunityRule(segments)
  ELSE engagementRule(list)

\* generateRecommendations: three independent ifs pushing in order
generateRecommendations(list, segments) ==
  riskManagementRule(list) \o growthOpportunityRule(segments) \o engagementRule(list)

\* calculateRiskDistribution; percentage is the fraction num / den
calculateRiskDistribution(list) ==
  LET count(category) == Len(SelectSeq(list, LAMBDA c : c.riskCategory = category))
  IN  <<[category |-> "Low Risk", count |-> count("Low"),
         percentage |-> [num |-> count("Low"), den |-> Len(list)]],
        [category |-> "Medium Risk", count |-> count("Medium"),
         percentage |-> [num |-> count("Medium"), den |-> Len(list)]],
        [category |-> "High Risk", count |-> count("High"),
         percentage |-> [num |-> count("High"), den |-> Len(list)]]>>

\* new Date(joinDate).toISOString().slice(0, 7): the year and the month of
\* the day numbered from 1970-01-01, for days of the years 1970 to 9999
MonthOf(day) ==
  LET z == day + 719468
      era == z \div 146097
      doe == z - era * 146097
      yoe == (doe - doe \div 1460 + doe \div 36524 - doe \div 146096) \div 365
      doy == doe - (365 * yoe + yoe \div 4 - yoe \div 100)
      mp == (5 * doy + 2) \div 153
      m == IF mp < 10 THEN mp + 3 ELSE mp - 9
  IN  [year |-> yoe + era * 400 + (IF m <= 2 THEN 1 ELSE 0), month |-> m]

\* a.localeCompare(b) < 0 on the texts YYYY-MM
MonthBefore(a, b) == a.year < b.year \/ (a.year = b.year /\ a.month < b.month)

\* the keys of the Map, in the order of their insertion
MonthsSeen(list) ==
  LET firsts == SelectSeq([i \in 1..Len(list) |-> i], LAMBDA i :
                  \A j \in 1..(i - 1) :
                    MonthOf(list[j].joinDate) # MonthOf(list[i].joinDate))
  IN  [k \in 1..Len(firsts) |-> MonthOf(list[firsts[k]].joinDate)]

\* Array.from(monthlyData.entries()).map(...): what the forEach added up
\* for each key, the average rounded; totalRevenue in hundredths
monthlyData(list) ==
  LET months == MonthsSeen(list)
      joined(month) == SelectSeq(list, LAMBDA c : MonthOf(c.joinDate) = month)
  IN  [k \in 1..Len(months) |->
         [month |-> months[k],
          newCustomers |-> Len(joined(months[k])),
          totalRevenue |-> Revenue(joined(months[k])),
          avgRiskScore |-> MathRound(SumField(joined(months[k]), "riskScore"),
                                     Len(joined(months[k])))]]

\* sort((a, b) => a.month.localeCompare(b.month)), a stable sort
RECURSIVE SortByMonth(_)
SortByMonth(entries) ==
  IF entries = <<>> THEN <<>>
  ELSE LET first == entries[1]
       IN  SelectSeq(SortByMonth(Tail(entries)), LAMBDA e : MonthBefore(e.month, first.month))
           \o <<first>>
           \o SelectSeq(SortByMonth(Tail(entries)),
                        LAMBDA e : ~MonthBefore(e.month, first.month))

\* the entries left in the order of insertion
calculateMonthlyTrendsUnsorted(list) == monthlyData(list)

\* calculateMonthlyTrends
calculateMonthlyTrends(list) == SortByMonth(monthlyData(list))

RECURSIVE SumRevenue(_)
SumRevenue(segments) ==
  IF segments = <<>> THEN 0 ELSE segments[1].revenue + SumRevenue(Tail(segments))

\* generateBusinessInsights over the list refs of objects of the heap h
generateBusinessInsights(h, refs, segments) ==
  LET list == Deref(h, refs)
  IN  [totalCustomers |-> Len(list),
       highRiskCount |-> Len(SelectSeq(list, LAMBDA c : c.riskCategory = "High")),
       fraudSuspects |-> Len(detectFraudPatterns(h, refs)),
       premiumOpportunities |->
         Len(SelectSeq(list, LAMBDA c : c.income > 500000 /\ c.riskScore < 50
                                          /\ c.segment # "Premium")),
       averageRiskScore |-> calculateAverage(list, "riskScore"),
       portfolioValue |-> SumRevenue(segments),
       recommendations |-> generateRecommendations(list, segments),
       riskDistribution |-> calculateRiskDistribution(list),
       monthlyTrends |-> calculateMonthlyTrends(list)]

(***************************************************************************)
(* The analytics called on their own: a caller holds a list of customers,  *)
(* has the engine process it and asks for the segment analysis, the fraud  *)
(* suspects and the business insights of the list.                         *)
(***************************************************************************)
\* longest list of customers tried, the large populations apart
MaxPopulation == 3

\* a raw customer with the given attributes
RawCustomer(income, credit, payment, utilization, accountAge, fraud, amount, joinDate) ==
  [DefaultCustomer(1, joinDate) EXCEPT
     !.income = income, !.creditScore = credit, !.paymentHistory = payment,
     !.utilizationRate = utilization, !.accountAge = accountAge,
     !.fraudAlerts = fraud, !.avgTransactionAmount = amount]

\* a wealthy, reliable customer who joined on the given day
Reliable(joinDate) == RawCustomer(650000, 800, 95, 10, 48, 0, 5000, joinDate)

\* a poor, unreliable customer
Unreliable == RawCustomer(100000, 450, 60, 90, 3, 3, 1000, 1990)

\* the customers tried: the reliable one, who joined 180 days before the
\* day after NowStart, the unreliable one, a customer of long ago with ten
\* times the income and the amounts of the unreliable one, and customers
\* with a negative and with no income
InsightCustomers ==
  { Reliable(1820), Unreliable,
    RawCustomer(1000000, 650, 85, 45, 24, 0, 10000, 1000),
    RawCustomer(-100000, 450, 60, 90, 3, 3, 1000, 1990),
    RawCustomer(0, 650, 85, 45, 24, 0, 5000, 1900) }

\* sizes of the large populations
PopulationSizes == {20, 100}

\* numbers of unreliable customers around 15% and 70% of a population
HighCounts(n) ==
  { (n * 15) \div 100, (n * 15) \div 100 + 1, (n * 70) \div 100, (n * 70) \div 100 + 1 }

\* a large population: h unreliable customers, then reliable ones
LargePopulation(n, h) ==
  [i \in 1..n |-> IF i <= h THEN Unreliable ELSE Reliable(1820)]

\* numbers of recent and of old members giving a Premium segment a growth
\* rate of 15 and of 16
GrowthCounts == { <<3, 20>>, <<4, 25>> }

\* a population of reliable customers: recent ones, then ones of long ago
GrowthPopulation(recent, old) ==
  [i \in 1..(recent + old) |-> IF i <= recent THEN Reliable(1820) ELSE Reliable(1000)]

InsightLists ==
  SeqsUpTo(InsightCustomers, MaxPopulation)
  \cup UNION { { LargePopulation(n, h) : h \in HighCounts(n) } : n \in PopulationSizes }
  \cup { GrowthPopulation(counts[1], counts[2]) : counts \in GrowthCounts }

InitInsights ==
  /\ \E list \in InsightLists :
       /\ heap = list
       /\ newCustomers = [i \in 1..Len(list) |-> i]
  /\ customers = <<>>
  /\ rawBefore = <<>>
  /\ uploadStats = NoStats
  /\ now = NowStart
  /\ csvFile = NoFile
  /\ analytics = NoAnalysis
  /\ upload = NoUpload
  /\ mockData = NoMockData
  /\ table = NoTable

\* the caller asks for performSegmentAnalysis, detectFraudPatterns and
\* generateBusinessInsights of the list the engine has processed
Analyze ==
  /\ Processed \/ newCustomers = <<>>
  /\ \E segments \in {performSegmentAnalysis(Deref(heap, newCustomers), now)} :
       analytics' =
         [clock |-> now,
          customers |-> newCustomers,
          segments |-> segments,
          fraudSuspects |-> detectFraudPatterns(heap, newCustomers),
          insights |-> generateBusinessInsights(heap, newCustomers, segments)]
  /\ UNCHANGED <<heap, customers, newCustomers, rawBefore, uploadStats, now, csvFile,
                 upload, mockData, table>>

NextInsights == ProcessNewCustomerData \/ Analyze \/ Tick

SpecInsights == InitInsights /\ [][NextInsights]_vars

\* an analysis has been asked for
Analysed == analytics.clock >= 0

\* the customers that were analysed
AnalysedList == Deref(heap, analytics.customers)

(***************************************************************************)
(* Claims about the growth rate, the fraud suspects and the insights.      *)
(***************************************************************************)
\* members of a list that joined later than 180 days before the clock
RecentMembers(members, clock) ==
  Cardinality({ i \in 1..Len(members) : members[i].joinDate * 24 > clock - 180 * 24 })

\* C12: the growthRate of a bucket, with recent the number of its members
\* whose joinDate is later than now minus 180 days and old the others, is
\* 100 when old is 0 and recent / old * 100 rounded to the nearest integer
\* otherwise: 0 when no member is recent, above 100 when recent exceeds old
C12_GrowthRate ==
  Analysed =>
    \A k \in 1..Len(analytics.segments) :
      LET members == BucketMembers(clusterCustomers(AnalysedList),
                                   analytics.segments[k].segment)
          recent == RecentMembers(members, analytics.clock)
          old == Len(members) - recent
          growthRate == analytics.segments[k].growthRate
      IN  /\ old = 0 => growthRate = 100
          /\ old # 0 => /\ 2 * growthRate * old - old <= 200 * recent
                        /\ 200 * recent < 2 * growthRate * old + old
          /\ (old # 0 /\ recent = 0) => growthRate = 0
          /\ (old # 0 /\ recent > old) => growthRate > 100

\* a bucket with more recent than old members
C12_Witness ==
  /\ Analysed
  /\ \E k \in 1..Len(analytics.segments) :
       LET members == BucketMembers(clusterCustomers(AnalysedList),
                                    analytics.segments[k].segment)
       IN  /\ RecentMembers(members, analytics.clock) > 0
           /\ RecentMembers(members, analytics.clock) < Len(members)
           /\ analytics.segments[k].growthRate > 100

\* a bucket analysed when one of its members joined exactly 180 days ago,
\* all its members old
C12_WitnessBoundary ==
  /\ Analysed
  /\ \E k \in 1..Len(analytics.segments) :
       LET members == BucketMembers(clusterCustomers(AnalysedList),
                                    analytics.segments[k].segment)
       IN  /\ \E i \in 1..Len(members) :
                members[i].joinDate * 24 = analytics.clock - 180 * 24
           /\ analytics.segments[k].growthRate = 0

\* the anomaly score of the object r against the analysed population
ScoreOf(r) == calculateAnomalyScore(heap[r], AnalysedList)

\* positions of the analysed list whose customer scores above 0.7
SuspectPositions ==
  { i \in 1..Len(analytics.customers) : RealGreater(ScoreOf(analytics.customers[i]), 7, 10) }

C13_WitnessBoundary ==
  /\ Analysed
  /\ \E i \in 1..Len(analytics.customers) :
       RealEqual(ScoreOf(analytics.customers[i]), 7, 10)

\* the fields calculateAnomalyScore compares with their means
AnomalyFields == {"income", "avgTransactionAmount", "transactionCount"}

\* C14: for every customer of every non-empty population the anomaly score
\* is a finite number between 0 and 1, and a field whose population mean is
\* 0 contributes a deviation of 0 instead of NaN or Infinity
C14_ScoreFinite ==
  Analysed =>
    \A i \in 1..Len(analytics.customers) :
      LET score == ScoreOf(analytics.customers[i])
      IN  /\ score.kind = "finite"
          /\ ~BigLess(score.den, score.num)
          /\ \A field \in AnomalyFields :
               calculateAverage(AnalysedList, field) = 0 =>
                 RealEqual(zScore(AnalysedList[i][field], 0), 0, 1)

\* how many customers of the list satisfy the test
HowMany(list, Test(_)) == Cardinality({ i \in 1..Len(list) : Test(list[i]) })

IsHigh(c) == c.riskCategory = "High"

HasLowUtilization(c) == c.utilizationRate < 20

\* the type and priority of the recommendation when the condition holds
Expected(condition, type, priority) ==
  IF condition THEN <<[type |-> type, priority |-> priority]>> ELSE <<>>

\* C15: the recommendations are exactly those of risk_management/critical,
\* growth_opportunity/high and engagement/medium whose condition holds, each
\* at most once and in this order, whatever the other conditions are;
\* engagement is there exactly when the customers with utilizationRate
\* below 20 are more than 30% of the population
C15_RulesInOrder ==
  Analysed =>
    LET recommendations == analytics.insights.recommendations
        population == Len(AnalysedList)
        highRisk == 100 * HowMany(AnalysedList, IsHigh) > 15 * population
        premiumGrows ==
          \E k \in 1..Len(analytics.segments) :
            /\ analytics.segments[k].segment = "Premium"
            /\ analytics.segments[k].growthRate > 15
        lowUtilization ==
          100 * HowMany(AnalysedList, HasLowUtilization) > 30 * population
    IN  [k \in 1..Len(recommendations) |->
           [type |-> recommendations[k].type, priority |-> recommendations[k].priority]]
        = Expected(highRisk, "risk_management", "critical")
          \o Expected(premiumGrows, "growth_opportunity", "high")
          \o Expected(lowUtilization, "engagement", "medium")

\* the three rules fired
C15_Witness ==
  /\ Analysed
  /\ Len(analytics.insights.recommendations) = 3

\* the first rule did not fire, the other two did
C15_WitnessLater ==
  /\ Analysed
  /\ Len(analytics.insights.recommendations) = 2
  /\ analytics.insights.recommendations[1].type = "growth_opportunity"

\* only the second rule did not fire
C15_WitnessSkipped ==
  /\ Analysed
  /\ Len(analytics.insights.recommendations) = 2
  /\ analytics.insights.recommendations[1].type = "risk_management"
  /\ analytics.insights.recommendations[2].type = "engagement"

\* the risk_management recommendation is among the recommendations
RiskManagementProduced ==
  \E k \in 1..Len(analytics.insights.recommendations) :
    analytics.insights.recommendations[k].type = "risk_management"

\* C16: the risk_management recommendation is produced exactly when the
\* High customers are strictly more than 15% of the population: of 100
\* customers, with 16 High and not with 15
C16_StrictThreshold ==
  Analysed =>
    LET population == Len(AnalysedList)
        high == HowMany(AnalysedList, IsHigh)
    IN  /\ RiskManagementProduced <=> (100 * high > 15 * population)
        /\ (population = 100 /\ high = 16) => RiskManagementProduced
        /\ (population = 100 /\ high = 15) => ~RiskManagementProduced

\* 100 customers analysed, exactly 15 of them High
C16_Witness ==
  /\ Analysed
  /\ Len(AnalysedList) = 100
  /\ HowMany(AnalysedList, IsHigh) = 15
  /\ ~RiskManagementProduced

\* 100 customers analysed, 16 of them High
C16_WitnessAbove ==
  /\ Analysed
  /\ Len(AnalysedList) = 100
  /\ HowMany(AnalysedList, IsHigh) = 16
  /\ RiskManagementProduced

\* the customers of the list who joined in the given month
JoinedIn(list, month) == SelectSeq(list, LAMBDA c : MonthOf(c.joinDate) = month)

RECURSIVE SumNewCustomers(_)
SumNewCustomers(trends) ==
  IF trends = <<>> THEN 0 ELSE trends[1].newCustomers + SumNewCustomers(Tail(trends))

\* C17: the monthly trends have one entry for each year-month in which a
\* customer joined, in strictly ascending order of the month whatever the
\* order of the input; newCustomers counts the customers of the month and
\* sums to the population, totalRevenue is the sum of their income * 0.15
\* (here in hundredths) and avgRiskScore their mean riskScore rounded
C17_MonthlyTrends ==
  Analysed =>
    LET trends == analytics.insights.monthlyTrends
    IN  /\ \A k, m \in 1..Len(trends) :
             k < m => MonthBefore(trends[k].month, trends[m].month)
        /\ { trends[k].month : k \in 1..Len(trends) } =
             { MonthOf(AnalysedList[i].joinDate) : i \in 1..Len(AnalysedList) }
        /\ SumNewCustomers(trends) = Len(AnalysedList)
        /\ \A k \in 1..Len(trends) :
             LET joined == JoinedIn(AnalysedList, trends[k].month)
                 n == Len(joined)
                 sum == SumField(joined, "riskScore")
             IN  /\ trends[k].newCustomers = n
                 /\ trends[k].totalRevenue = 15 * SumField(joined, "income")
                 /\ 2 * trends[k].avgRiskScore * n - n <= 2 * sum
                 /\ 2 * sum < 2 * trends[k].avgRiskScore * n + n

\* a population given with a later month before an earlier one, two of its
\* customers in the same month
C17_Witness ==
  /\ Analysed
  /\ Len(analytics.insights.monthlyTrends) >= 2
  /\ \E i, j \in 1..Len(AnalysedList) :
       /\ i < j
       /\ MonthBefore(MonthOf(AnalysedList[j].joinDate), MonthOf(AnalysedList[i].joinDate))
  /\ \E k \in 1..Len(analytics.insights.monthlyTrends) :
       analytics.insights.monthlyTrends[k].newCustomers >= 2

\* the divisors of the divisions performSegmentAnalysis, detectFraudPatterns,
\* generateRecommendations and calculateMonthlyTrends perform on a list:
\* the lengths calculateAverage and percentage divide by, the old customers
\* of a bucket when there are some, the means of the anomaly fields (a
\* z-score divides by the mean * 0.5), the length of the list in the
\* message of the first rule, and the newCustomers of a month
Divisors(list, clock) ==
  LET segments == clusterCustomers(list)
      old(members) ==
        Len(members)
        - Len(SelectSeq(members, LAMBDA c : c.joinDate * 24 > clock - 6 * 30 * 24))
  IN  UNION { {Len(segments[k].customers), Len(list)}
              \cup ({old(segments[k].customers)} \ {0}) : k \in 1..Len(segments) }
      \cup UNION { {Len(list)} \cup { calculateAverage(list, field) : field \in AnomalyFields } :
                   i \in 1..Len(list) }
      \cup (IF riskManagementRule(list) # <<>> THEN {Len(list)} ELSE {})
      \cup { monthlyData(list)[k].newCustomers : k \in 1..Len(monthlyData(list)) }

\* C18: on an empty list performSegmentAnalysis, detectFraudPatterns,
\* generateRecommendations (with the segment analysis of the same list) and
\* calculateMonthlyTrends each return an empty list, and none of them
\* divides by zero
C18_EmptyList ==
  (Analysed /\ analytics.customers = <<>>) =>
    /\ analytics.segments = <<>>
    /\ analytics.fraudSuspects = <<>>
    /\ analytics.insights.recommendations = <<>>
    /\ analytics.insights.monthlyTrends = <<>>
    /\ 0 \notin Divisors(AnalysedList, analytics.clock)

\* the empty list has been analysed
C18_Witness ==
  /\ Analysed
  /\ analytics.customers = <<>>
  /\ analytics.insights.totalCustomers = 0

\* the two records of the scenario, by their attributes
IsFirstRecord(c) ==
  /\ c.income = 650000 /\ c.creditScore = 800 /\ c.paymentHistory = 95
  /\ c.utilizationRate = 10 /\ c.accountAge = 48 /\ c.fraudAlerts = 0

IsSecondRecord(c) ==
  /\ c.income = 100000 /\ c.creditScore = 450 /\ c.paymentHistory = 60
  /\ c.utilizationRate = 90 /\ c.accountAge = 3 /\ c.fraudAlerts = 3

\* the analysed list is the two records, in either order
ScenarioAnalysed ==
  /\ Analysed
  /\ Len(AnalysedList) = 2
  /\ \E i, j \in 1..2 : IsFirstRecord(AnalysedList[i]) /\ IsSecondRecord(AnalysedList[j])

\* C19: processNewCustomerData makes the record with income 650000,
\* creditScore 800, paymentHistory 95, utilizationRate 10, accountAge 48 and
\* no fraud alert Premium and Low, the record with income 100000,
\* creditScore 450, paymentHistory 60, utilizationRate 90, accountAge 3 and 3
\* fraud alerts Basic and High, and performSegmentAnalysis over the two
\* returns the buckets Premium and Basic, 1 customer and percentage 0.5 each
C19_Scenario ==
  /\ Processed =>
       \A i \in 1..Len(Held) :
         /\ IsFirstRecord(rawBefore[i]) =>
              Held[i].segment = "Premium" /\ Held[i].riskCategory = "Low"
         /\ IsSecondRecord(rawBefore[i]) =>
              Held[i].segment = "Basic" /\ Held[i].riskCategory = "High"
  /\ ScenarioAnalysed =>
       /\ Len(analytics.segments) = 2
       /\ analytics.segments[1].segment = "Premium"
       /\ analytics.segments[2].segment = "Basic"
       /\ \A k \in 1..2 :
            /\ analytics.segments[k].customers = 1
            /\ analytics.segments[k].percentage.den # 0
            /\ 2 * analytics.segments[k].percentage.num =
                 analytics.segments[k].percentage.den

\* the two records processed and analysed, the second given first
C19_Witness ==
  /\ ScenarioAnalysed
  /\ IsSecondRecord(rawBefore[1])
  /\ IsFirstRecord(rawBefore[2])
  /\ Held[1].riskScore = 70
  /\ Held[2].riskScore = 6

(***************************************************************************)
(* Claims about the CSV parser.                                            *)
(***************************************************************************)
\* the column of the sample file that carries each field with a default
ColumnOf ==
  [age |-> "age", income |-> "income", creditScore |-> "credit_score",
   accountBalance |-> "balance", transactionCount |-> "transactions",
   avgTransactionAmount |-> "avg_transaction",
   paymentHistory |-> "payment_history", utilizationRate |-> "utilization",
   accountAge |-> "account_age", fraudAlerts |-> "fraud_alerts",
   city |-> "city", state |-> "state"]

\* the documented default of each field
DocumentedDefault ==
  [age |-> 30, income |-> 300000, creditScore |-> 650, accountBalance |-> 50000,
   transactionCount |-> 25, avgTransactionAmount |-> 5000, paymentHistory |-> 85,
   utilizationRate |-> 45, accountAge |-> 24, fraudAlerts |-> 0,
   city |-> "Mumbai", state |-> "Maharashtra"]

\* a file has been uploaded
Uploaded == csvFile # NoFile

\* C20: in every record parsed from an uploaded file, a field whose column
\* is missing from the header row has its documented default, and the
\* derived fields are placeholders: riskScore 0 and segment ''
C20_MissingColumnDefaults ==
  Uploaded =>
    \A i \in 1..Len(rawBefore) :
      /\ \A field \in DOMAIN ColumnOf :
           (\A k \in 1..Len(csvFile.headers) : csvFile.headers[k] # ColumnOf[field])
           => rawBefore[i][field] = DocumentedDefault[field]
      /\ rawBefore[i].riskScore = 0
      /\ rawBefore[i].segment = ""


(***************************************************************************)
(* Claims about the anomaly score formula and the growth recommendation.   *)
(***************************************************************************)
\* two real numbers are the same number
RealSame(x, y) ==
  /\ x.kind = y.kind
  /\ x.kind = "finite" => BigEqual(BigTimes(x.num, y.den), BigTimes(y.num, x.den))

\* |value - mean| / (mean * 0.5) for the arithmetic mean sum / n, sum # 0
ClaimedDeviation(list, field, value) ==
  Real(2 * Abs(Len(list) * value - SumField(list, field)), Abs(SumField(list, field)))

\* min(1, (incomeDev * 0.3 + amountDev * 0.4 + countDev * 0.3) / 3)
ClaimedAnomalyScore(customer, list) ==
  MathMinOne(
    RealTimes(
      RealPlus(RealPlus(RealTimes(ClaimedDeviation(list, "income", customer.income), 3, 10),
                        RealTimes(ClaimedDeviation(list, "avgTransactionAmount",
                                                   customer.avgTransactionAmount), 4, 10)),
               RealTimes(ClaimedDeviation(list, "transactionCount",
                                          customer.transactionCount), 3, 10)),
      1, 3))

\* C21: for every customer of every population whose means of income,
\* avgTransactionAmount and transactionCount are not zero, the anomaly
\* score is min(1, (incomeDev * 0.3 + amountDev * 0.4 + countDev * 0.3) / 3),
\* each deviation being |value - mean| / (mean * 0.5) for the arithmetic
\* mean of the field over the population
C21_AnomalyFormula ==
  Analysed =>
    \A list \in {AnalysedList} :
      (\A field \in AnomalyFields : SumField(list, field) # 0) =>
        \A i \in 1..Len(list) :
          RealSame(calculateAnomalyScore(list[i], list), ClaimedAnomalyScore(list[i], list))

\* an analysed population with non-zero means where the formula gives the
\* score of the code
C21_FormulaMet ==
  /\ Analysed
  /\ Len(analytics.customers) > 1
  /\ \A field \in AnomalyFields : SumField(AnalysedList, field) # 0
  /\ \E i \in 1..Len(analytics.customers) :
       /\ RealSame(ScoreOf(analytics.customers[i]),
                   ClaimedAnomalyScore(AnalysedList[i], AnalysedList))
       /\ RealGreater(ScoreOf(analytics.customers[i]), 0, 1)
       /\ ~RealEqual(ScoreOf(analytics.customers[i]), 1, 1)


\* the recommendations of the analysis hold a growth_opportunity one
GrowthOpportunityProduced ==
  \E k \in 1..Len(analytics.insights.recommendations) :
    /\ analytics.insights.recommendations[k].type = "growth_opportunity"
    /\ analytics.insights.recommendations[k].priority = "high"

\* C22: the high-priority growth_opportunity recommendation is produced iff
\* the segments hold an entry named Premium whose growthRate is strictly
\* greater than 15: not without a Premium entry and not at exactly 15,
\* whatever the customers are
C22_GrowthOpportunity ==
  Analysed =>
    /\ GrowthOpportunityProduced
         <=> \E k \in 1..Len(analytics.segments) :
               /\ analytics.segments[k].segment = "Premium"
               /\ analytics.segments[k].growthRate > 15
    /\ Cardinality({ k \in 1..Len(analytics.insights.recommendations) :
                       analytics.insights.recommendations[k].type = "growth_opportunity" }) <= 1

\* a Premium segment growing by exactly 15 and no recommendation
C22_Witness ==
  /\ Analysed
  /\ \E k \in 1..Len(analytics.segments) :
       /\ analytics.segments[k].segment = "Premium"
       /\ analytics.segments[k].growthRate = 15
  /\ ~GrowthOpportunityProduced

\* a Premium segment growing by 16 and the recommendation
C22_WitnessAbove ==
  /\ Analysed
  /\ \E k \in 1..Len(analytics.segments) :
       /\ analytics.segments[k].segment = "Premium"
       /\ analytics.segments[k].growthRate = 16
  /\ GrowthOpportunityProduced

\* segments without a Premium entry, each growing by more than 15, and no
\* recommendation
C22_WitnessNoPremium ==
  /\ Analysed
  /\ Len(analytics.segments) > 0
  /\ \A k \in 1..Len(analytics.segments) :
       analytics.segments[k].segment # "Premium" /\ analytics.segments[k].growthRate > 15
  /\ ~GrowthOpportunityProduced


(***************************************************************************)
(* handleFileUpload line by line.  The handler awaits file.text() and      *)
(* then runs to its end without another await: the steps below are the     *)
(* statements of that run, in the order of the code, with the clock free   *)
(* to advance between them.                                                *)
(***************************************************************************)
\* a cell parseInt cannot read
NotANumber == [kind |-> "text", n |-> 0]

\* a data line whose every numeric cell holds the given cell
RowOf(cell) ==
  [CsvRow(cell, cell, cell, cell, cell, cell, NoNum) EXCEPT
     !.age = cell, !.balance = cell, !.transactions = cell, !.avg_transaction = cell]

\* the data lines tried in the stepped uploads: a blank line, a line with
\* an age of 0, a line of zeros and a line of unreadable cells
UploadRows ==
  { BlankLine,
    [CsvRow(Num(700000), Num(400), Num(100), Num(10), Num(60), Num(0), Num(1000))
       EXCEPT !.age = Num(0)],
    RowOf(Num(0)),
    RowOf(NotANumber) }

\* the files tried: the sample header over up to MaxRows lines, and a
\* header that names account_age before age over one line
UploadFiles ==
  { [headers |-> SampleHeaders, lines |-> l] : l \in SeqsUpTo(UploadRows, MaxRows) }
  \cup { [headers |-> <<"account_age", "age">>, lines |-> <<r>>] :
           r \in UploadRows \ {BlankLine} }

\* lines 16-26: a file is chosen, its text read and split, newCustomers is
\* a new empty list
StartUpload ==
  /\ upload.pc = "idle"
  /\ \E file \in UploadFiles : csvFile' = file
  /\ newCustomers' = <<>>
  /\ rawBefore' = <<>>
  /\ upload' = [pc |-> "loop", i |-> 1, calls |-> 0, isProcessing |-> TRUE,
                processedCustomers |-> <<>>]
  /\ UNCHANGED <<heap, customers, uploadStats, now, analytics, mockData, table>>

\* lines 28-36: one iteration of the loop; a blank line is skipped, any
\* other line is parsed into a new object that is pushed
ParseLine ==
  /\ upload.pc = "loop"
  /\ upload.i <= Len(csvFile.lines)
  /\ IF csvFile.lines[upload.i].blank
     THEN UNCHANGED <<heap, newCustomers>>
     ELSE /\ heap' = Append(heap,
                       parseCustomerFromCSV(csvFile.headers,
                         [k \in 1..Len(csvFile.headers) |->
                            csvFile.lines[upload.i][csvFile.headers[k]]],
                         upload.i, now))
          /\ newCustomers' = Append(newCustomers, Len(heap) + 1)
  /\ upload' = [upload EXCEPT !.i = @ + 1]
  /\ UNCHANGED <<customers, rawBefore, uploadStats, now, csvFile, analytics,
                 mockData, table>>

\* the engine is called from inside the loop
CallEngineInLoop ==
  /\ upload.pc = "loop"
  /\ upload.i > 1
  /\ \E run \in {processNewCustomerData(heap, newCustomers)} :
       /\ rawBefore' = Deref(heap, newCustomers)
       /\ heap' = run.heap
       /\ upload' = [upload EXCEPT !.pc = IF upload.i > Len(csvFile.lines)
                                          THEN "stats" ELSE "loop",
                                   !.calls = @ + 1,
                                   !.processedCustomers = run.result]
  /\ UNCHANGED <<customers, newCustomers, uploadStats, now, csvFile, analytics,
                 mockData, table>>

\* line 39, after the loop: processNewCustomerData(newCustomers)
CallEngine ==
  /\ upload.pc = "loop"
  /\ upload.i > Len(csvFile.lines)
  /\ \E run \in {processNewCustomerData(heap, newCustomers)} :
       /\ rawBefore' = Deref(heap, newCustomers)
       /\ heap' = run.heap
       /\ upload' = [upload EXCEPT !.pc = "stats", !.calls = @ + 1,
                                   !.processedCustomers = run.result]
  /\ UNCHANGED <<customers, newCustomers, uploadStats, now, csvFile, analytics,
                 mockData, table>>

\* lines 41-46: setUploadStats
SetUploadStats ==
  /\ upload.pc = "stats"
  /\ \E processedCustomers \in {Deref(heap, upload.processedCustomers)} :
       uploadStats' =
         [totalRecords |-> Len(newCustomers),
          validRecords |-> Len(processedCustomers),
          highRisk |-> Cardinality({ i \in 1..Len(processedCustomers) :
                                      processedCustomers[i].riskCategory = "High" }),
          sumRiskScore |-> SumRiskScore(processedCustomers)]
  /\ upload' = [upload EXCEPT !.pc = "update"]
  /\ UNCHANGED <<heap, customers, newCustomers, rawBefore, now, csvFile, analytics,
                 mockData, table>>

\* lines 48-54: onDataUpdate(processedCustomers), which is the App's
\* setCustomers, then setIsProcessing(false); the objects of the list that
\* was displayed are dropped from the heap
DataUpdate ==
  /\ upload.pc = "update"
  /\ heap' = Deref(heap, upload.processedCustomers)
  /\ customers' = [i \in 1..Len(upload.processedCustomers) |-> i]
  /\ newCustomers' = [i \in 1..Len(newCustomers) |-> i]
  /\ upload' = NoUpload
  /\ UNCHANGED <<rawBefore, uploadStats, now, csvFile, analytics,
                 mockData, table>>

NextUpload ==
  StartUpload \/ ParseLine \/ CallEngine \/ SetUploadStats \/ DataUpdate \/ Tick

SpecUpload == Init /\ [][NextUpload]_vars

(***************************************************************************)
(* Claims about the order of the steps of an upload.                       *)
(***************************************************************************)
\* number of lines of a file that are not blank
NonBlank(lines) == Cardinality({ k \in 1..Len(lines) : ~lines[k].blank })

\* C23: during an upload the engine is invoked exactly once, and only after
\* every line of the file has been parsed into the list: it never runs on
\* a partially built list, no line is parsed after it has run, and
\* onDataUpdate is called only after processNewCustomerData has returned
C23_EngineAfterParsing ==
  /\ [][upload'.calls > upload.calls =>
          /\ upload.calls = 0
          /\ upload.i > Len(csvFile.lines)
          /\ Len(newCustomers) = NonBlank(csvFile.lines)
          /\ rawBefore' = Deref(heap, newCustomers)]_vars
  /\ [][Len(newCustomers') > Len(newCustomers) => upload.calls = 0]_vars
  /\ [][upload.pc = "update" /\ upload'.pc = "idle" =>
          /\ upload.calls = 1
          /\ Len(upload.processedCustomers) = NonBlank(csvFile.lines)
          /\ \A i \in 1..Len(customers') :
               Deref(heap', customers')[i] = processCustomer(rawBefore[i])]_vars

\* the engine has run once on the two customers of a file of two lines and
\* onDataUpdate is about to be called
C23_Witness ==
  /\ upload.pc = "update"
  /\ upload.calls = 1
  /\ Len(csvFile.lines) = 2
  /\ Len(upload.processedCustomers) = 2
  /\ \A i \in 1..2 : heap[upload.processedCustomers[i]].segment # ""

\* the same for a file whose first line is blank
C23_WitnessBlank ==
  /\ upload.pc = "update"
  /\ upload.calls = 1
  /\ Len(csvFile.lines) = 2
  /\ csvFile.lines[1].blank
  /\ Len(upload.processedCustomers) = 1


(***************************************************************************)
(* The risk distribution as the App and mockData compute it.               *)
(***************************************************************************)
\* one bucket of the App's and of mockData's distribution: the count, the
\* fraction of the list and the summed revenue of a risk category
RiskBucket(list, label, riskCategory) ==
  LET members == SelectSeq(list, LAMBDA c : c.riskCategory = riskCategory)
  IN  [category |-> label, count |-> Len(members),
       percentage |-> [num |-> Len(members), den |-> Len(list)],
       revenue |-> Revenue(members)]

\* App.currentRiskDistribution over the displayed list
currentRiskDistribution(list) ==
  <<RiskBucket(list, "Low Risk", "Low"), RiskBucket(list, "Medium Risk", "Medium"),
    RiskBucket(list, "High Risk", "High")>>

\* mockData's riskDistribution over the generated list
riskDistribution(list) ==
  <<RiskBucket(list, "Low Risk", "Low"), RiskBucket(list, "Medium Risk", "Medium"),
    RiskBucket(list, "High Risk", "High")>>

\* C24: the risk distribution is always three buckets in the order Low
\* Risk, Medium Risk, High Risk, each carrying count, percentage of total
\* and summed revenue; the counts sum to the number of customers; and the
\* engine's calculateRiskDistribution, the App's currentRiskDistribution
\* and mockData's riskDistribution give the same buckets for the same list
C24_RiskDistribution ==
  Analysed =>
    \A list \in {AnalysedList} :
      \A distribution \in {analytics.insights.riskDistribution,
                           currentRiskDistribution(list), riskDistribution(list)} :
        /\ Len(distribution) = 3
        /\ distribution[1].category = "Low Risk"
        /\ distribution[2].category = "Medium Risk"
        /\ distribution[3].category = "High Risk"
        /\ distribution[1].count + distribution[2].count + distribution[3].count
             = Len(list)
        /\ \A k \in 1..3 :
             /\ DOMAIN distribution[k] = {"category", "count", "percentage", "revenue"}
             /\ distribution[k] = currentRiskDistribution(list)[k]

\* the part of C24 the three computations share: categories, order, counts
\* and percentages
C24_CountsAgree ==
  Analysed =>
    \A list \in {AnalysedList} :
      /\ list # <<>> =>
           \A k \in 1..3 :
             \A field \in {"category", "count", "percentage"} :
               /\ analytics.insights.riskDistribution[k][field]
                    = currentRiskDistribution(list)[k][field]
               /\ riskDistribution(list)[k] = currentRiskDistribution(list)[k]
      /\ analytics.insights.riskDistribution[1].count
           + analytics.insights.riskDistribution[2].count
           + analytics.insights.riskDistribution[3].count = Len(list)


(***************************************************************************)
(* The module mockData: when it is loaded it generates its own list of     *)
(* customers, analyses the segments of the list and then gives every       *)
(* customer the first entry of that analysis it satisfies.                 *)
(***************************************************************************)
\* the predicates are taken by the position of the entry, as if all four
\* segments were listed
mockSegmentByPosition(customer, segments) ==
  LET found == { k \in 1..Len(segments) : k >= 4 \/ criteria(k, customer) }
  IN  IF found = {} THEN "Basic"
      ELSE segments[CHOOSE k \in found : \A m \in found : k <= m].segment

\* segmentAnalysis.find(s => ...)?.segment || 'Basic': the predicate of an
\* entry is chosen by its name, an entry of any other name matches
mockSegment(customer, segments) ==
  LET matches(s) ==
        IF s.segment = "Premium" THEN customer.income > 600000 /\ customer.riskScore < 40
        ELSE IF s.segment = "Gold" THEN customer.income > 400000 /\ customer.riskScore < 60
        ELSE IF s.segment = "Silver" THEN customer.income > 250000 /\ customer.riskScore < 80
        ELSE TRUE
      found == { k \in 1..Len(segments) : matches(segments[k]) }
  IN  IF found = {} THEN "Basic"
      ELSE segments[CHOOSE k \in found : \A m \in found : k <= m].segment

\* const customers = generateCustomers() when the module is loaded, before
\* the App is mounted
InitMockData ==
  /\ \E generated \in generateCustomers(NowStart) :
       mockData = [pc |-> "generated", customers |-> generated, segmentAnalysis |-> <<>>]
  /\ heap = <<>>
  /\ customers = <<>>
  /\ newCustomers = <<>>
  /\ rawBefore = <<>>
  /\ uploadStats = NoStats
  /\ now = NowStart
  /\ csvFile = NoFile
  /\ analytics = NoAnalysis
  /\ upload = NoUpload
  /\ table = NoTable

\* export const segmentAnalysis = performSegmentAnalysis(customers)
AnalyzeMockData ==
  /\ mockData.pc = "generated"
  /\ mockData' = [mockData EXCEPT
                    !.pc = "analysed",
                    !.segmentAnalysis = performSegmentAnalysis(mockData.customers, now)]
  /\ UNCHANGED <<heap, customers, newCustomers, rawBefore, uploadStats, now, csvFile,
                 analytics, upload, table>>

\* customers.forEach(customer => { customer.segment = ... })
AssignSegments ==
  /\ mockData.pc = "analysed"
  /\ mockData' = [mockData EXCEPT
                    !.pc = "loaded",
                    !.customers =
                       [i \in 1..Len(mockData.customers) |->
                          [mockData.customers[i] EXCEPT
                             !.segment = mockSegment(mockData.customers[i],
                                                     mockData.segmentAnalysis)]]]
  /\ UNCHANGED <<heap, customers, newCustomers, rawBefore, uploadStats, now, csvFile,
                 analytics, upload, table>>

NextMockData == AnalyzeMockData \/ AssignSegments \/ Tick

SpecMockData == InitMockData /\ [][NextMockData]_vars

\* C25: the segment mockData gives a generated customer, the first entry of
\* the non-empty segmentAnalysis list whose predicate the customer
\* satisfies or Basic, is the segment the engine's assignCustomerSegment
\* gives it, although empty segments are missing from segmentAnalysis
C25_MockSegments ==
  /\ mockData.pc = "generated" =>
       \A i \in 1..Len(mockData.customers) : mockData.customers[i].segment = ""
  /\ mockData.pc = "loaded" =>
       \A i \in 1..Len(mockData.customers) :
         mockData.customers[i].segment = assignCustomerSegment(mockData.customers[i])

\* a loaded list with a Gold customer whose segmentAnalysis has no Premium
\* entry: Gold is the first entry of the list
C25_Witness ==
  /\ mockData.pc = "loaded"
  /\ mockData.segmentAnalysis[1].segment = "Gold"
  /\ Len(mockData.segmentAnalysis) = 2
  /\ \E i \in 1..Len(mockData.customers) : mockData.customers[i].segment = "Gold"
  /\ \E i \in 1..Len(mockData.customers) : mockData.customers[i].segment = "Basic"


(***************************************************************************)
(* Claims about the records the engine returns.                            *)
(***************************************************************************)
\* C26: after processNewCustomerData a Premium customer has a risk score
\* below 40 and a Gold customer one below 60, so neither is High risk; a
\* Silver customer has a risk score below 80; and every customer with a
\* risk score of 80 or more or an income of 250000 or less is Basic
C26_SegmentFitsRisk ==
  Processed =>
    \A i \in 1..Len(Held) :
      /\ Held[i].segment = "Premium" => Held[i].riskScore < 40
      /\ Held[i].segment = "Gold" => Held[i].riskScore < 60
      /\ Held[i].segment \in {"Premium", "Gold"} => Held[i].riskCategory # "High"
      /\ Held[i].segment = "Silver" => Held[i].riskScore < 80
      /\ (Held[i].riskScore >= 80 \/ Held[i].income <= 250000) => Held[i].segment = "Basic"

\* a processed customer with an income above 600000 who is Basic for a
\* risk score of 80 or more
C26_Witness ==
  /\ Processed
  /\ \E i \in 1..Len(Held) :
       /\ Held[i].income > 600000
       /\ Held[i].riskScore >= 80
       /\ Held[i].segment = "Basic"

\* a processed Silver customer who is High risk
C26_WitnessSilverHigh ==
  /\ Processed
  /\ \E i \in 1..Len(Held) :
       /\ Held[i].segment = "Silver"
       /\ Held[i].riskCategory = "High"

\* a processed Premium customer and a Gold one
C26_WitnessPremium ==
  /\ Processed
  /\ \E i \in 1..Len(Held) : Held[i].segment \in {"Premium", "Gold"}


\* a processed customer with an income of exactly 250000 and a risk score
\* below 40, who is Basic
C26_WitnessIncomeLimit ==
  /\ Processed
  /\ \E i \in 1..Len(Held) :
       Held[i].income = 250000 /\ Held[i].riskScore < 40 /\ Held[i].segment = "Basic"

\* a processed customer with an income above 600000 and a risk score of
\* exactly 40, who is Gold
C26_WitnessScoreLimit ==
  /\ Processed
  /\ \E i \in 1..Len(Held) :
       Held[i].income > 600000 /\ Held[i].riskScore = 40 /\ Held[i].segment = "Gold"


\* the fields processNewCustomerData writes
DerivedFields == {"riskScore", "riskCategory", "segment"}

\* C27: processNewCustomerData returns a list of the length and in the
\* order of its input and changes nothing but riskScore, riskCategory and
\* segment: every other field of the i-th record returned is that field of
\* the i-th input record, and no record is dropped or duplicated
C27_OnlyDerivedFieldsChange ==
  Uploaded =>
    /\ Len(customers) = Len(rawBefore)
    /\ customers = newCustomers
    /\ \A i, j \in 1..Len(customers) : i # j => customers[i] # customers[j]
    /\ \A i \in 1..Len(customers) :
         \A field \in DOMAIN rawBefore[i] \ DerivedFields :
           Displayed[i][field] = rawBefore[i][field]
    /\ uploadStats.totalRecords = Len(rawBefore)
    /\ uploadStats.validRecords = Len(rawBefore)

\* an upload of two different lines: the two records returned differ from
\* the parsed ones in the derived fields only
C27_Witness ==
  /\ Uploaded
  /\ Len(customers) = 2
  /\ rawBefore[1].income # rawBefore[2].income
  /\ \A i \in 1..2 :
       /\ Displayed[i].segment # rawBefore[i].segment
       /\ Displayed[i].riskScore # rawBefore[i].riskScore
       /\ Displayed[i].id = rawBefore[i].id


(***************************************************************************)
(* The CustomerTable: the App renders it over its list of customers while  *)
(* the customers tab is open.  The table keeps a search term, a risk       *)
(* filter, a sort column and order, the current page and the page size.    *)
(* The order of the rows is left out: the pages depend on the number of    *)
(* rows only.                                                              *)
(***************************************************************************)
\* largest page number tried
MaxPage == 8

\* the i-th customer of a list shown in the table, processed by the
\* engine: every third one unreliable, the others reliable or the default
\* customer in turn
TableCustomer(i) ==
  processCustomer(
    [(IF i % 3 = 0 THEN Unreliable
      ELSE IF i % 3 = 1 THEN Reliable(1820) ELSE DefaultCustomer(i, 1900))
     EXCEPT !.id = <<"CUST", i>>, !.name = <<"Customer", i>>])

\* lengths of the lists shown in the table
TableSizes == {0, 3, 60, 130}

TableLists == { [i \in 1..n |-> TableCustomer(i)] : n \in TableSizes }

\* the search terms typed: nothing, text every name holds, the id of the
\* first customer and text no name or id holds
SearchTerms == {"", "cust", "cust-0001", "zzz"}

\* customer.name.toLowerCase().includes(term) || customer.id.toLowerCase()
\* .includes(term) for the names 'Customer i' and the ids 'CUST-000i'
MatchesSearch(customer, searchTerm) ==
  \/ searchTerm \in {"", "cust"}
  \/ searchTerm = "cust-0001" /\ customer.id = <<"CUST", 1>>

\* customer.riskCategory.toLowerCase()
LowerCase(riskCategory) ==
  CASE riskCategory = "Low" -> "low"
    [] riskCategory = "Medium" -> "medium"
    [] riskCategory = "High" -> "high"
    [] OTHER -> riskCategory

\* the rows that pass the two filters of filteredCustomers
filteredCustomers(list, t) ==
  SelectSeq(SelectSeq(list, LAMBDA c : MatchesSearch(c, t.searchTerm)),
            LAMBDA c : t.riskFilter = "all" \/ LowerCase(c.riskCategory) = t.riskFilter)

\* Math.ceil(filteredCustomers.length / itemsPerPage)
totalPages(list, t) ==
  (Len(filteredCustomers(list, t)) + t.itemsPerPage - 1) \div t.itemsPerPage

\* the page number on the i-th page button, i from 0
pageNum(i, pages, currentPage) ==
  IF pages <= 5 THEN i + 1
  ELSE IF currentPage <= 3 THEN i + 1
  ELSE IF currentPage >= pages - 2 THEN pages - 4 + i
  ELSE currentPage - 2 + i

\* the customers tab is open over one of the lists
InitTable ==
  /\ \E list \in TableLists :
       /\ heap = list
       /\ customers = [i \in 1..Len(list) |-> i]
  /\ newCustomers = <<>>
  /\ rawBefore = <<>>
  /\ uploadStats = NoStats
  /\ now = NowStart
  /\ csvFile = NoFile
  /\ analytics = NoAnalysis
  /\ upload = NoUpload
  /\ mockData = NoMockData
  /\ table = [NoTable EXCEPT !.mounted = TRUE]

\* the frame of every event of the table
TableOnly ==
  UNCHANGED <<heap, customers, newCustomers, rawBefore, uploadStats, now, csvFile,
              analytics, upload, mockData>>

\* onChange of the search input
Search ==
  /\ table.mounted
  /\ \E term \in SearchTerms :
       table' = [table EXCEPT !.searchTerm = term, !.currentPage = 1]
  /\ TableOnly

\* onChange of the risk select
SelectRiskFilter ==
  /\ table.mounted
  /\ \E value \in {"all", "low", "medium", "high"} :
       table' = [table EXCEPT !.riskFilter = value, !.currentPage = 1]
  /\ TableOnly

\* handleSort(key), the click on a column header
handleSort ==
  /\ table.mounted
  /\ \E key \in {"id", "riskScore", "creditScore", "income"} :
       table' = IF table.sortBy = key
                THEN [table EXCEPT !.sortOrder = IF @ = "asc" THEN "desc" ELSE "asc",
                                   !.currentPage = 1]
                ELSE [table EXCEPT !.sortBy = key, !.sortOrder = "desc",
                                   !.currentPage = 1]
  /\ TableOnly

\* handleItemsPerPageChange(items), the page-size select
handleItemsPerPageChange ==
  /\ table.mounted
  /\ \E items \in {25, 50, 100} :
       table' = [table EXCEPT !.itemsPerPage = items, !.currentPage = 1]
  /\ TableOnly

\* the previous-page button, disabled on page 1
PreviousPage ==
  /\ table.mounted
  /\ table.currentPage # 1
  /\ table' = [table EXCEPT !.currentPage = @ - 1]
  /\ TableOnly

\* one of the up to five page-number buttons
PageButton ==
  /\ table.mounted
  /\ \E pages \in {totalPages(Displayed, table)} :
       \E i \in 0..(Min(5, pages) - 1) :
         table' = [table EXCEPT !.currentPage = pageNum(i, pages, table.currentPage)]
  /\ TableOnly

\* the next-page button, disabled when currentPage === totalPages
NextPage ==
  /\ table.mounted
  /\ table.currentPage # totalPages(Displayed, table)
  /\ table.currentPage < MaxPage
  /\ table' = [table EXCEPT !.currentPage = @ + 1]
  /\ TableOnly

\* an upload started in the data tab ends while the customers tab is open:
\* App.handleDataUpdate replaces the list, the table keeps its state
ReplaceCustomers ==
  /\ \E list \in TableLists :
       /\ heap' = list
       /\ customers' = [i \in 1..Len(list) |-> i]
  /\ UNCHANGED <<newCustomers, rawBefore, uploadStats, now, csvFile, analytics, upload,
                 mockData, table>>

\* another tab is opened: the table is unmounted and its state is lost
CloseTab ==
  /\ table.mounted
  /\ table' = NoTable
  /\ TableOnly

\* the customers tab is opened again: the table starts from its initial
\* state
OpenTab ==
  /\ ~table.mounted
  /\ table' = [NoTable EXCEPT !.mounted = TRUE]
  /\ TableOnly

NextTable ==
  \/ Search \/ SelectRiskFilter \/ handleSort \/ handleItemsPerPageChange
  \/ PreviousPage \/ PageButton \/ NextPage \/ ReplaceCustomers
  \/ CloseTab \/ OpenTab

SpecTable == InitTable /\ [][NextTable]_vars

(***************************************************************************)
(* Claims about the pages of the table.                                    *)
(***************************************************************************)
\* C28: after any sequence of search, risk-filter, sort, page-size,
\* enabled page-button and list-replacement events currentPage is within
\* 1..max(1, totalPages) for totalPages = ceil(filtered count /
\* itemsPerPage), and search, filter, sort and page-size changes each
\* reset currentPage to 1
C28_PageInRange ==
  /\ [](table.mounted =>
          /\ table.currentPage >= 1
          /\ table.currentPage <= Max(1, totalPages(Displayed, table)))
  /\ [][(/\ table.mounted
         /\ table'.mounted
         /\ \E field \in {"searchTerm", "riskFilter", "sortBy", "sortOrder",
                          "itemsPerPage"} : table'[field] # table[field])
        => table'.currentPage = 1]_vars

\* the second half of C28 alone: a change of the search term, the risk
\* filter, the sort or the page size puts the table on page 1
C28_ChangesReset ==
  [][(/\ table.mounted
      /\ table'.mounted
      /\ \E field \in {"searchTerm", "riskFilter", "sortBy", "sortOrder",
                       "itemsPerPage"} : table'[field] # table[field])
     => table'.currentPage = 1]_vars

\* the table on a page beyond the last one
C28_BeyondLastPage ==
  /\ table.mounted
  /\ totalPages(Displayed, table) > 0
  /\ table.currentPage > totalPages(Displayed, table)

\* the table on page 2 of no pages
C28_PageOfNone ==
  /\ table.mounted
  /\ totalPages(Displayed, table) = 0
  /\ table.currentPage = 2


(***************************************************************************)
(* Claims about the risk score as a function of one input.                 *)
(***************************************************************************)
\* the values tried for the input the claim is about
ValuesTried(field) ==
  CASE field = "creditScore" -> CreditScoreVals
    [] field = "paymentHistory" -> PaymentHistoryVals
    [] field = "income" -> IncomeVals
    [] field = "accountAge" -> AccountAgeVals
    [] field = "utilizationRate" -> UtilizationVals
    [] field = "fraudAlerts" -> FraudAlertVals

\* the risk scores of the customer c with the field raised to a value
\* tried
ScoresWithMore(c, field) ==
  { calculateRiskScore([c EXCEPT ![field] = v]) :
      v \in { x \in ValuesTried(field) : x > c[field] } }

\* C29: with all other inputs fixed the risk score never increases when
\* creditScore, paymentHistory, income or accountAge increases, and never
\* decreases when utilizationRate or fraudAlerts increases
C29_Monotone ==
  Processed =>
    \A i \in 1..Len(Held) :
      /\ \A field \in {"creditScore", "paymentHistory", "income", "accountAge"} :
           \A score \in ScoresWithMore(rawBefore[i], field) : score <= Held[i].riskScore
      /\ \A field \in {"utilizationRate", "fraudAlerts"} :
           \A score \in ScoresWithMore(rawBefore[i], field) : score >= Held[i].riskScore

\* a processed customer whose score is below 100 and falls with a longer
\* account age and rises with more fraud alerts
C29_Witness ==
  /\ Processed
  /\ \E i \in 1..Len(Held) :
       /\ Held[i].riskScore < 100
       /\ \E score \in ScoresWithMore(rawBefore[i], "accountAge") :
            score < Held[i].riskScore
       /\ \E score \in ScoresWithMore(rawBefore[i], "fraudAlerts") :
            score > Held[i].riskScore

\* a processed customer whose score stays at 100 whatever rises
C29_WitnessFlat ==
  /\ Processed
  /\ \E i \in 1..Len(Held) :
       /\ Held[i].riskScore = 100
       /\ ScoresWithMore(rawBefore[i], "fraudAlerts") = {100}
       /\ ScoresWithMore(rawBefore[i], "utilizationRate") = {100}


(***************************************************************************)
(* Claims about cells that read as 0 or cannot be read.                    *)
(***************************************************************************)
\* the numeric fields with a default other than 0
NonZeroFields ==
  {"age", "income", "creditScore", "accountBalance", "transactionCount",
   "avgTransactionAmount", "paymentHistory", "utilizationRate", "accountAge"}

\* every line of the uploaded file has been parsed
FileParsed == Uploaded /\ upload.pc # "loop"

\* the lines of the uploaded file that are not blank, one per record
DataLines == SelectSeq(csvFile.lines, LAMBDA line : ~line.blank)

\* the cell reads as 0 or cannot be read
ZeroOrUnreadable(cell) ==
  cell.kind = "text" \/ (cell.kind = "number" /\ cell.n = 0)

\* the part of C30 about the values: every ingested record has non-zero
\* age, income, creditScore, accountBalance, transactionCount,
\* avgTransactionAmount, paymentHistory, utilizationRate and accountAge, so
\* that transactionCount / accountAge never divides by zero
C30_NonZero ==
  FileParsed =>
    \A k \in 1..Len(rawBefore) :
      /\ \A field \in NonZeroFields : rawBefore[k][field] # 0
      /\ RiskFactorsOf(rawBefore[k]).transactionPattern = "finite"

\* C30: in CSV ingestion a numeric column that is present but parses to 0
\* or fails to parse is replaced by the default of a missing column, so
\* that every ingested record has non-zero age, income, creditScore,
\* accountBalance, transactionCount, avgTransactionAmount, paymentHistory,
\* utilizationRate and accountAge and transactionCount / accountAge never
\* divides by zero
C30_ZeroCellsDefault ==
  FileParsed =>
    /\ Len(rawBefore) = Len(DataLines)
    /\ \A k \in 1..Len(rawBefore) :
         /\ \A field \in NonZeroFields :
              /\ (/\ \E h \in 1..Len(csvFile.headers) :
                       csvFile.headers[h] = ColumnOf[field]
                  /\ ZeroOrUnreadable(DataLines[k][ColumnOf[field]]))
                 => rawBefore[k][field] = DocumentedDefault[field]
              /\ rawBefore[k][field] # 0
         /\ RiskFactorsOf(rawBefore[k]).transactionPattern = "finite"

\* a record parsed from a line of zeros and one from a line of unreadable
\* cells under the sample header: both hold the defaults
C30_DefaultsTaken ==
  /\ FileParsed
  /\ csvFile.headers = SampleHeaders
  /\ Len(rawBefore) = 2
  /\ DataLines[1].income = Num(0)
  /\ DataLines[2].income = NotANumber
  /\ \A k \in 1..2 : \A field \in NonZeroFields :
       rawBefore[k][field] = DocumentedDefault[field]

====
